---- MODULE Spec2Model ----
(***************************************************************************)
(* Duplicate-event detection of the CampusEvents server: the detector      *)
(* (DuplicateEventDetector), and the event routes that consult it          *)
(* (POST /api/events/check-duplicates, POST /api/events, PUT               *)
(* /api/events/:id).                                                       *)
(*                                                                         *)
(* Numbers.  The detector computes with JavaScript doubles; the model      *)
(* computes the same expressions over exact rationals <<n, d>> in lowest   *)
(* terms (d > 0).  Strings are sequences of one-character strings.         *)
(* Instants are milliseconds relative to a base instant.                   *)
(***************************************************************************)
EXTENDS Integers, Sequences, FiniteSets, TLC

----------------------------------------------------------------------------
(* Exact rational arithmetic                                               *)

Abs(x) == IF x < 0 THEN -x ELSE x

RECURSIVE Gcd(_, _)
Gcd(a, b) == IF b = 0 THEN a ELSE Gcd(b, a % b)

Frac(n, d) ==
  LET g == Gcd(Abs(n), d)
  IN  IF g = 0 THEN <<0, 1>> ELSE <<n \div g, d \div g>>

RZero == <<0, 1>>
ROne == <<1, 1>>

\* The operands are brought to the least common denominator, so that the
\* intermediate products stay small
RAdd(a, b) ==
  LET g == Gcd(a[2], b[2])
  IN  Frac(a[1] * (b[2] \div g) + b[1] * (a[2] \div g), (a[2] \div g) * b[2])
RSub(a, b) ==
  LET g == Gcd(a[2], b[2])
  IN  Frac(a[1] * (b[2] \div g) - b[1] * (a[2] \div g), (a[2] \div g) * b[2])
RMul(a, b) ==
  LET g1 == Gcd(Abs(a[1]), b[2])
      g2 == Gcd(Abs(b[1]), a[2])
      h1 == IF g1 = 0 THEN 1 ELSE g1
      h2 == IF g2 = 0 THEN 1 ELSE g2
  IN  Frac((a[1] \div h1) * (b[1] \div h2), (a[2] \div h2) * (b[2] \div h1))
RGe(a, b) ==
  LET g == Gcd(a[2], b[2])
  IN  a[1] * (b[2] \div g) >= b[1] * (a[2] \div g)
RGt(a, b) ==
  LET g == Gcd(a[2], b[2])
  IN  a[1] * (b[2] \div g) > b[1] * (a[2] \div g)
RLe(a, b) == RGe(b, a)
RLt(a, b) == RGt(b, a)

----------------------------------------------------------------------------
(* Characters and the String methods the detector uses                     *)

UpperCase ==
  <<"A", "B", "C", "D", "E", "F", "G", "H", "I", "J", "K", "L", "M",
    "N", "O", "P", "Q", "R", "S", "T", "U", "V", "W", "X", "Y", "Z">>
LowerCase ==
  <<"a", "b", "c", "d", "e", "f", "g", "h", "i", "j", "k", "l", "m",
    "n", "o", "p", "q", "r", "s", "t", "u", "v", "w", "x", "y", "z">>
UpperChars == {UpperCase[i] : i \in 1..Len(UpperCase)}
LowerChars == {LowerCase[i] : i \in 1..Len(LowerCase)}
DigitChars == {"0", "1", "2", "3", "4", "5", "6", "7", "8", "9"}
SpaceChars == {" "}
PunctChars == {"!"}
Chars == UpperChars \cup LowerChars \cup DigitChars \cup SpaceChars \cup PunctChars

\* String.prototype.toLowerCase, one character
ToLower == [c \in Chars \cup {"_"} |->
              IF c \in UpperChars
              THEN LowerCase[CHOOSE i \in 1..Len(UpperCase) : UpperCase[i] = c]
              ELSE c]
LowerChar(c) == ToLower[c]

toLowerCase(s) == [i \in 1..Len(s) |-> LowerChar(s[i])]

\* \w of a JavaScript regular expression: [A-Za-z0-9_]
WordChars == UpperChars \cup LowerChars \cup DigitChars \cup {"_"}
IsWordChar(c) == c \in WordChars
\* \s of a JavaScript regular expression
IsSpaceChar(c) == c \in SpaceChars

RECURSIVE TrimLeft(_)
TrimLeft(s) ==
  IF s = <<>> THEN <<>>
  ELSE IF IsSpaceChar(Head(s)) THEN TrimLeft(Tail(s)) ELSE s

RECURSIVE TrimRight(_)
TrimRight(s) ==
  IF s = <<>> THEN <<>>
  ELSE IF IsSpaceChar(s[Len(s)]) THEN TrimRight(SubSeq(s, 1, Len(s) - 1)) ELSE s

\* String.prototype.trim
trim(s) == TrimRight(TrimLeft(s))

\* s.replace(/[^\w\s]/g, '')
StripNonWord(s) == SelectSeq(s, LAMBDA c : IsWordChar(c) \/ IsSpaceChar(c))

\* text.toLowerCase().trim().replace(/[^\w\s]/g, '')
Normalize(s) == StripNonWord(trim(toLowerCase(s)))

\* s.split(/\s+/): the pieces between maximal runs of whitespace; cur is the
\* piece being read, sep tells that the previous character was whitespace.
RECURSIVE SplitFrom(_, _, _)
SplitFrom(s, cur, sep) ==
  IF s = <<>> THEN <<cur>>
  ELSE IF IsSpaceChar(Head(s))
       THEN IF sep THEN SplitFrom(Tail(s), cur, TRUE)
            ELSE <<cur>> \o SplitFrom(Tail(s), <<>>, TRUE)
       ELSE SplitFrom(Tail(s), Append(cur, Head(s)), FALSE)

SplitWhitespace(s) == SplitFrom(s, <<>>, FALSE)

\* A word set taken from the normalized text, punctuation stripped
WordSetNormalized(s) ==
  LET parts == SplitWhitespace(Normalize(s))
  IN  {parts[i] : i \in {k \in 1..Len(parts) : Len(parts[k]) > 2}}

\* new Set(text.toLowerCase().split(/\s+/).filter(word => word.length > 2))
WordSet(s) ==
  LET parts == SplitWhitespace(toLowerCase(s))
  IN  {parts[i] : i \in {k \in 1..Len(parts) : Len(parts[k]) > 2}}

\* The value JavaScript's `!text` treats as missing besides the empty string
Undefined == <<"undefined">>
Falsy(s) == s = <<>> \/ s = Undefined

\* `${x}` in a template literal: a missing value prints as "undefined"
TemplateText(s) ==
  IF s = Undefined THEN <<"u", "n", "d", "e", "f", "i", "n", "e", "d">> ELSE s

\* An optional value: <<>> when absent, <<v>> when present
None == <<>>
Some(v) == <<v>>
IsSome(o) == o # <<>>
Get(o) == o[1]

----------------------------------------------------------------------------
(* DuplicateEventDetector: the similarity functions                        *)

VARIABLES
  detector,   \* the detector instance: its three configuration fields
  events,     \* the event store: the stored events, in insertion order
  nextId,     \* the identity the store gives the next created event
  call,       \* the last checkForDuplicates call: its inputs and outcome
  response,   \* the last HTTP response of the event routes
  probe,      \* the last direct use of one of the detector's pure functions
  client,     \* the browser page: the create flow and its duplicate check
  calls,      \* the checkForDuplicates calls under way at the same time
  register    \* one event's registration counter, its Registration
              \* documents and the register requests under way

vars == <<detector, events, nextId, call, response, probe, client, calls, register>>

MsPerDay == 86400000

SetMin(S) == CHOOSE x \in S : \A y \in S : x <= y
SetMax(S) == CHOOSE x \in S : \A y \in S : y <= x

Max2(a, b) == IF a >= b THEN a ELSE b

\* The cost of cell (i, j) that does not look at the cell to its left
LevAbove(str1, str2, i, prev, j) ==
  IF j = 0 THEN i
  ELSE IF str1[i] = str2[j] THEN prev[j]
  ELSE SetMin({prev[j], prev[j + 1]}) + 1

\* Row i of the matrix, columns 0..n, given row i-1 (column k sits at k+1).
\* The loop sets cell j to prev[j-1] where the characters agree and to
\* 1 + min(prev[j-1], prev[j], cell j-1) where they differ; unrolling the
\* dependence on the left neighbour, cell j is the least LevAbove(k) + (j - k)
\* over the columns k <= j from which only differing characters lead to j,
\* that is from the last column before j where the characters agree.
LevFill(str1, str2, i, prev, n) ==
  <<>> \o
  [c \in 1..(n + 1) |->
     SetMin({LevAbove(str1, str2, i, prev, k) + (c - 1 - k) :
               k \in SetMax({0} \cup {h \in 1..(c - 1) : str1[i] = str2[h]})..(c - 1)})]

\* The rows of the matrix from row i on, given row i-1; the value is
\* matrix[len1][len2].  (Each row is computed before the next one is asked for.)
RECURSIVE LevRows(_, _, _, _)
LevRows(str1, str2, i, prev) ==
  IF i > Len(str1) THEN prev[Len(str2) + 1]
  ELSE CHOOSE d \in
         {LevRows(str1, str2, i + 1, row) :
            row \in {LevFill(str1, str2, i, prev, Len(str2))}} : TRUE

levenshteinDistance(str1, str2) ==
  LevRows(str1, str2, 1, [j \in 1..(Len(str2) + 1) |-> j - 1])

\* A similarity that divides by the length of the first text
TextSimilarityByFirst(text1, text2) ==
  IF Falsy(text1) \/ Falsy(text2) THEN RZero
  ELSE CHOOSE similarity \in
         {IF normalized1 = normalized2 THEN ROne
          ELSE IF Max2(Len(normalized1), Len(normalized2)) = 0 THEN ROne
          ELSE RSub(ROne, Frac(levenshteinDistance(normalized1, normalized2),
                               Max2(Len(normalized1), 1))) :
            normalized1 \in {Normalize(text1)},
            normalized2 \in {Normalize(text2)}} : TRUE

calculateTextSimilarity(text1, text2) ==
  IF Falsy(text1) \/ Falsy(text2) THEN RZero
  ELSE CHOOSE similarity \in
         {IF normalized1 = normalized2 THEN ROne
          ELSE IF Max2(Len(normalized1), Len(normalized2)) = 0 THEN ROne
          ELSE RSub(ROne, Frac(levenshteinDistance(normalized1, normalized2),
                               Max2(Len(normalized1), Len(normalized2)))) :
            normalized1 \in {Normalize(text1)},
            normalized2 \in {Normalize(text2)}} : TRUE

\* A word-set similarity that counts two empty word sets as equal
JaccardEmptyIsOne(text1, text2) ==
  IF Falsy(text1) \/ Falsy(text2) THEN RZero
  ELSE LET words1 == WordSet(text1)
           words2 == WordSet(text2)
           intersection == words1 \cap words2
           union == words1 \cup words2
       IN  IF Cardinality(union) = 0 THEN ROne
           ELSE Frac(Cardinality(intersection), Cardinality(union))

calculateJaccardSimilarity(text1, text2) ==
  IF Falsy(text1) \/ Falsy(text2) THEN RZero
  ELSE LET words1 == WordSet(text1)
           words2 == WordSet(text2)
           intersection == words1 \cap words2
           union == words1 \cup words2
       IN  IF Cardinality(union) = 0 THEN RZero
           ELSE Frac(Cardinality(intersection), Cardinality(union))

calculateCombinedSimilarity(text1, text2) ==
  LET levenshtein == calculateTextSimilarity(text1, text2)
      jaccard == calculateJaccardSimilarity(text1, text2)
  IN  RAdd(RMul(levenshtein, Frac(6, 10)), RMul(jaccard, Frac(4, 10)))

\* A date proximity that counts whole days elapsed (rounds down)
calculateDateProximityFloor(date1, date2) ==
  LET diffTime == Abs(date1 - date2)
      diffDays == diffTime \div MsPerDay
  IN  IF diffDays = 0 THEN ROne
      ELSE IF diffDays > detector.dateProximityDays THEN RZero
      ELSE RSub(ROne, Frac(diffDays, detector.dateProximityDays))

\* A date proximity that is linear in the elapsed time (does not round)
calculateDateProximityLinear(date1, date2) ==
  LET diffTime == Abs(date1 - date2)
  IN  IF diffTime = 0 THEN ROne
      ELSE IF diffTime > detector.dateProximityDays * MsPerDay THEN RZero
      ELSE RSub(ROne, Frac(diffTime, detector.dateProximityDays * MsPerDay))

calculateDateProximity(date1, date2) ==
  LET diffTime == Abs(date1 - date2)
      diffDays == (diffTime + MsPerDay - 1) \div MsPerDay
  IN  IF diffDays = 0 THEN ROne
      ELSE IF diffDays > detector.dateProximityDays THEN RZero
      ELSE RSub(ROne, Frac(diffDays, detector.dateProximityDays))

\* Haversine distance in km.  The model's venues lie on one meridian and
\* their latitude is given in km of arc, so the great-circle distance is the
\* difference of the latitudes.
calculateDistance(lat1, lon1, lat2, lon2) == Frac(Abs(lat2 - lat1), 1)

calculateVenueProximity(venue1, venue2) ==
  LET nameSimilarity == calculateCombinedSimilarity(venue1.name, venue2.name)
      hasCoordinates ==
        /\ IsSome(venue1.coordinates) /\ IsSome(venue2.coordinates)
        /\ Get(venue1.coordinates).latitude # 0
        /\ Get(venue1.coordinates).longitude # 0
        /\ Get(venue2.coordinates).latitude # 0
        /\ Get(venue2.coordinates).longitude # 0
      distance == calculateDistance(
                    Get(venue1.coordinates).latitude, Get(venue1.coordinates).longitude,
                    Get(venue2.coordinates).latitude, Get(venue2.coordinates).longitude)
      km == Frac(detector.venueProximityKm, 1)
      geoProximity ==
        IF hasCoordinates
        THEN IF RLe(distance, km)
             THEN RSub(ROne, RMul(distance, Frac(1, detector.venueProximityKm)))
             ELSE RZero
        ELSE RZero
      addressSimilarity ==
        IF IsSome(venue1.address) /\ IsSome(venue2.address)
        THEN calculateCombinedSimilarity(
               TemplateText(Get(venue1.address).street) \o <<" ">>
                 \o TemplateText(Get(venue1.address).city),
               TemplateText(Get(venue2.address).street) \o <<" ">>
                 \o TemplateText(Get(venue2.address).city))
        ELSE RZero
  IN  RAdd(RAdd(RMul(nameSimilarity, Frac(5, 10)), RMul(geoProximity, Frac(3, 10))),
           RMul(addressSimilarity, Frac(2, 10)))

----------------------------------------------------------------------------
(* DuplicateEventDetector: scoring a pair, classifying, explaining         *)

\* The registered users
Users == {1, 2}

\* An organizer reference is an ObjectId ("id"), the record populate() puts
\* in its place ("doc"), or null ("null": the referenced user does not exist)
OrgId(u) == [kind |-> "id", id |-> u]
OrgDoc(u) == [kind |-> "doc", id |-> u]
OrgNull == [kind |-> "null", id |-> 0]

\* .populate('organizer', ...)
Populate(e) ==
  [e EXCEPT !.organizer =
     IF e.organizer.kind = "id"
     THEN IF e.organizer.id \in Users THEN OrgDoc(e.organizer.id) ELSE OrgNull
     ELSE e.organizer]

\* organizer.toString(): the hex string of an ObjectId, "[object Object]" of
\* a plain record
OrganizerToString(o) ==
  IF o.kind = "id" THEN <<"ObjectId", o.id>> ELSE <<"[object Object]", 0>>

\* calculateDuplicateProbability throws a TypeError on these pairs
ScoreThrows(event1, event2) ==
  event1.organizer.kind = "null" \/ event2.organizer.kind = "null"

WeightTitle == Frac(35, 100)
WeightDescription == Frac(20, 100)
WeightDate == Frac(15, 100)
\* A weight of venueProximity other than the code's
WeightVenueTenth == Frac(10, 100)
WeightVenue == Frac(15, 100)
WeightCategory == Frac(10, 100)
\* A weight of organizerMatch that makes the weights sum to more than 1
WeightOrganizerTenth == Frac(10, 100)
WeightOrganizer == Frac(5, 100)

calculateDuplicateProbability(event1, event2) ==
  LET titleSimilarity == calculateCombinedSimilarity(event1.title, event2.title)
      descriptionSimilarity ==
        calculateCombinedSimilarity(event1.description, event2.description)
      dateProximity ==
        calculateDateProximity(event1.dateTime.start, event2.dateTime.start)
      venueProximity == calculateVenueProximity(event1.venue, event2.venue)
      categoryMatch == IF event1.category = event2.category THEN 1 ELSE 0
      organizerMatch ==
        IF OrganizerToString(event1.organizer) = OrganizerToString(event2.organizer)
        THEN 1 ELSE 0
      probability ==
        RAdd(RAdd(RAdd(RAdd(RAdd(
          RMul(titleSimilarity, WeightTitle),
          RMul(descriptionSimilarity, WeightDescription)),
          RMul(dateProximity, WeightDate)),
          RMul(venueProximity, WeightVenue)),
          RMul(Frac(categoryMatch, 1), WeightCategory)),
          RMul(Frac(organizerMatch, 1), WeightOrganizer))
  IN  [probability |-> probability,
       factors |-> [titleSimilarity |-> titleSimilarity,
                    descriptionSimilarity |-> descriptionSimilarity,
                    dateProximity |-> dateProximity,
                    venueProximity |-> venueProximity,
                    categoryMatch |-> categoryMatch,
                    organizerMatch |-> organizerMatch]]

\* A classification whose breakpoints belong to the lower tier
getConfidenceLevelStrict(probability) ==
  IF RGt(probability, Frac(9, 10)) THEN "VERY_HIGH"
  ELSE IF RGt(probability, Frac(8, 10)) THEN "HIGH"
  ELSE IF RGt(probability, Frac(6, 10)) THEN "MEDIUM"
  ELSE IF RGt(probability, Frac(4, 10)) THEN "LOW"
  ELSE "VERY_LOW"

getConfidenceLevel(probability) ==
  IF RGe(probability, Frac(9, 10)) THEN "VERY_HIGH"
  ELSE IF RGe(probability, Frac(8, 10)) THEN "HIGH"
  ELSE IF RGe(probability, Frac(6, 10)) THEN "MEDIUM"
  ELSE IF RGe(probability, Frac(4, 10)) THEN "LOW"
  ELSE "VERY_LOW"

\* Math.round(x * 100), x >= 0
Percent(x) == (200 * x[1] + x[2]) \div (2 * x[2])

\* An explanation whose triggers fire at their own values too
generateExplanationInclusive(analysis) ==
  LET factors == analysis.factors
      explanations ==
        (IF RGe(factors.titleSimilarity, Frac(8, 10))
         THEN <<<<"Event titles are N% similar", Percent(factors.titleSimilarity)>>>>
         ELSE <<>>)
        \o (IF RGe(factors.descriptionSimilarity, Frac(7, 10))
            THEN <<<<"Event descriptions are N% similar",
                     Percent(factors.descriptionSimilarity)>>>>
            ELSE <<>>)
        \o (IF RGe(factors.dateProximity, Frac(8, 10))
            THEN <<<<"Events are scheduled very close in time">>>> ELSE <<>>)
        \o (IF RGe(factors.venueProximity, Frac(8, 10))
            THEN <<<<"Events are at the same or very similar venue">>>> ELSE <<>>)
        \o (IF factors.categoryMatch = 1
            THEN <<<<"Events are in the same category">>>> ELSE <<>>)
        \o (IF factors.organizerMatch = 1
            THEN <<<<"Events have the same organizer">>>> ELSE <<>>)
  IN  IF Len(explanations) > 0 THEN explanations
      ELSE <<<<"General similarity detected">>>>

\* generateExplanation: the clauses pushed, in order (join(', ') keeps them in
\* this order); a clause with a percentage carries it
generateExplanation(analysis) ==
  LET factors == analysis.factors
      explanations ==
        (IF RGt(factors.titleSimilarity, Frac(8, 10))
         THEN <<<<"Event titles are N% similar", Percent(factors.titleSimilarity)>>>>
         ELSE <<>>)
        \o (IF RGt(factors.descriptionSimilarity, Frac(7, 10))
            THEN <<<<"Event descriptions are N% similar",
                     Percent(factors.descriptionSimilarity)>>>>
            ELSE <<>>)
        \o (IF RGt(factors.dateProximity, Frac(8, 10))
            THEN <<<<"Events are scheduled very close in time">>>> ELSE <<>>)
        \o (IF RGt(factors.venueProximity, Frac(8, 10))
            THEN <<<<"Events are at the same or very similar venue">>>> ELSE <<>>)
        \o (IF factors.categoryMatch = 1
            THEN <<<<"Events are in the same category">>>> ELSE <<>>)
        \o (IF factors.organizerMatch = 1
            THEN <<<<"Events have the same organizer">>>> ELSE <<>>)
  IN  IF Len(explanations) > 0 THEN explanations
      ELSE <<<<"General similarity detected">>>>

----------------------------------------------------------------------------
(* DuplicateEventDetector.checkForDuplicates                               *)

DefaultLimit == 50
MaxDuplicates == 5
MaxSuggestions == 3
SuggestionCutoff == Frac(5, 10)

\* const { threshold = this.similarityThreshold, limit = 50,
\*         excludeEventId = null } = options
OptThreshold(options) ==
  IF IsSome(options.threshold) THEN Get(options.threshold)
  ELSE detector.similarityThreshold
OptLimit(options) == IF IsSome(options.limit) THEN Get(options.limit) ELSE DefaultLimit
\* excludeEventId: None is null; identities are positive, hence truthy
OptExclude(options) == options.excludeEventId

\* A query document without the condition on status
QueryAnyStatus(newEvent, options, e) ==
  LET window == detector.dateProximityDays * 24 * 60 * 60 * 1000
  IN  /\ e.category = newEvent.category
      /\ e.dateTime.start >= newEvent.dateTime.start - window
      /\ e.dateTime.start <= newEvent.dateTime.start + window
      /\ IsSome(OptExclude(options)) => e._id # Get(OptExclude(options))

\* The query document matches stored event e
QueryMatches(newEvent, options, e) ==
  LET window == detector.dateProximityDays * 24 * 60 * 60 * 1000
  IN  /\ e.status \in {"draft", "published"}
      /\ e.category = newEvent.category
      /\ e.dateTime.start >= newEvent.dateTime.start - window
      /\ e.dateTime.start <= newEvent.dateTime.start + window
      /\ IsSome(OptExclude(options)) => e._id # Get(OptExclude(options))

\* A slice that keeps the end of the list
LastN(seq, n) == IF Len(seq) <= n THEN seq ELSE SubSeq(seq, Len(seq) - n + 1, Len(seq))

FirstN(seq, n) == IF Len(seq) <= n THEN seq ELSE SubSeq(seq, 1, n)

\* Event.find(query).populate('organizer', ...).limit(limit).lean()
RECURSIVE Matching(_, _, _)
Matching(store, newEvent, options) ==
  IF store = <<>> THEN <<>>
  ELSE (IF QueryMatches(newEvent, options, Head(store)) THEN <<Head(store)>> ELSE <<>>)
       \o Matching(Tail(store), newEvent, options)

RECURSIVE PopulateAll(_)
PopulateAll(found) ==
  IF found = <<>> THEN <<>>
  ELSE <<Populate(Head(found))>> \o PopulateAll(Tail(found))

FindEvents(store, newEvent, options) ==
  LET matching == Matching(store, newEvent, options)
  IN  PopulateAll(FirstN(matching, OptLimit(options)))

\* A const of the code is bound to the one value of its expression: the
\* one element of {... : c \in {expression}}
Verdict(newEvent, existingEvent) ==
  CHOOSE verdict \in
    {[event |-> existingEvent,
      probability |-> analysis.probability,
      factors |-> analysis.factors,
      confidence |-> getConfidenceLevel(analysis.probability)] :
       analysis \in {calculateDuplicateProbability(newEvent, existingEvent)}} : TRUE

\* The verdict of every retrieved event, in retrieval order
RECURSIVE Verdicts(_, _)
Verdicts(newEvent, existingEvents) ==
  IF existingEvents = <<>> THEN <<>>
  ELSE <<Verdict(newEvent, Head(existingEvents))>>
       \o Verdicts(newEvent, Tail(existingEvents))

\* A first branch that leaves the threshold itself out
AboveThreshold(v, threshold) == RGt(v.probability, threshold)
\* A second branch that is no "else" of the first
AtLeastCutoff(v, threshold) == RGe(v.probability, Frac(5, 10))

\* The loop's first branch: probability >= threshold
IsDuplicateVerdict(v, threshold) == RGe(v.probability, threshold)
\* The loop's second branch: else if probability >= 0.5
IsSuggestionVerdict(v, threshold) ==
  ~IsDuplicateVerdict(v, threshold) /\ RGe(v.probability, SuggestionCutoff)

\* No sort: the retrieval order
RetrievalOrder(seq) == seq

\* Array.prototype.sort((a, b) => b.probability - a.probability): a stable
\* sort, highest probability first.  v goes before the first verdict of
\* sorted that is not more probable than v.
RECURSIVE InsertDesc(_, _)
InsertDesc(sorted, v) ==
  IF sorted = <<>> THEN <<v>>
  ELSE IF RGt(Head(sorted).probability, v.probability)
       THEN <<Head(sorted)>> \o InsertDesc(Tail(sorted), v)
       ELSE <<v>> \o sorted

RECURSIVE SortDesc(_)
SortDesc(seq) ==
  IF seq = <<>> THEN <<>>
  ELSE CHOOSE result \in
         {InsertDesc(sorted, Head(seq)) : sorted \in {SortDesc(Tail(seq))}} : TRUE

\* The verdicts the loop pushes to duplicates, in retrieval order
RECURSIVE PushedDuplicates(_, _)
PushedDuplicates(verdicts, threshold) ==
  IF verdicts = <<>> THEN <<>>
  ELSE (IF IsDuplicateVerdict(Head(verdicts), threshold) THEN <<Head(verdicts)>> ELSE <<>>)
       \o PushedDuplicates(Tail(verdicts), threshold)

\* The verdicts the loop pushes to suggestions, in retrieval order
RECURSIVE PushedSuggestions(_, _)
PushedSuggestions(verdicts, threshold) ==
  IF verdicts = <<>> THEN <<>>
  ELSE (IF IsSuggestionVerdict(Head(verdicts), threshold) THEN <<Head(verdicts)>> ELSE <<>>)
       \o PushedSuggestions(Tail(verdicts), threshold)

\* A count that takes VERY_HIGH for HIGH as well
CountConfidenceAtLeast(seq, level) ==
  Cardinality({i \in 1..Len(seq) :
                 seq[i].confidence = level
                   \/ (level = "HIGH" /\ seq[i].confidence = "VERY_HIGH")})

CountConfidence(seq, level) ==
  Cardinality({i \in 1..Len(seq) : seq[i].confidence = level})

\* The frame of one call: its inputs, the number of Event.find queries it
\* issued, the locals at the return statement (duplicates and suggestions are
\* the sorted buckets, before slicing) and what the call returned (result) or
\* that it threw (threw).
NoCall ==
  [made |-> FALSE, newEvent |-> <<>>, options |-> <<>>, threshold |-> RZero,
   queries |-> 0, existingEvents |-> <<>>, duplicates |-> <<>>,
   suggestions |-> <<>>, threw |-> FALSE, result |-> None]

\* The object the call returns, from the sorted buckets
BuildResult(existingEvents, duplicates, suggestions, threshold) ==
  [isDuplicate |-> Len(duplicates) > 0,
   duplicates |-> FirstN(duplicates, MaxDuplicates),
   suggestions |-> FirstN(suggestions, MaxSuggestions),
   analysis |->
     [totalChecked |-> Len(existingEvents),
      threshold |-> threshold,
      highConfidenceDuplicates |-> CountConfidence(duplicates, "HIGH"),
      mediumConfidenceDuplicates |-> CountConfidence(duplicates, "MEDIUM")]]

\* A catch block that answers with what it has: an empty analysis
ThrownPartial(newEvent, options, existingEvents) ==
  [NoCall EXCEPT !.made = TRUE, !.newEvent = Some(newEvent),
                 !.options = Some(options), !.threshold = OptThreshold(options),
                 !.queries = 1,
                 !.existingEvents = existingEvents, !.threw = TRUE,
                 !.result = Some(BuildResult(existingEvents, <<>>, <<>>,
                                             OptThreshold(options)))]

\* The frame of a call that threw: in the one query or in the loop after
\* it; the catch block rethrows
Thrown(newEvent, options, existingEvents) ==
  [NoCall EXCEPT !.made = TRUE, !.newEvent = Some(newEvent),
                 !.options = Some(options), !.threshold = OptThreshold(options),
                 !.queries = 1,
                 !.existingEvents = existingEvents, !.threw = TRUE]

\* The frame of a call that returned, from the sorted buckets
Returns(newEvent, options, existingEvents, duplicates, suggestions) ==
  [made |-> TRUE, newEvent |-> Some(newEvent), options |-> Some(options),
   threshold |-> OptThreshold(options), queries |-> 1,
   existingEvents |-> existingEvents,
   duplicates |-> duplicates, suggestions |-> suggestions, threw |-> FALSE,
   result |-> Some(BuildResult(existingEvents, duplicates, suggestions,
                               OptThreshold(options)))]

\* The loop, the two sorts and the return statement
\* The sorted buckets of the verdicts, and the frame of the call
Sorted(newEvent, options, existingEvents, verdicts) ==
  CHOOSE frame \in
    {Returns(newEvent, options, existingEvents, duplicates, suggestions) :
       duplicates \in {SortDesc(PushedDuplicates(verdicts, OptThreshold(options)))},
       suggestions \in {SortDesc(PushedSuggestions(verdicts, OptThreshold(options)))}} :
    TRUE

ScoreAll(newEvent, options, existingEvents) ==
  CHOOSE frame \in
    {Sorted(newEvent, options, existingEvents, verdicts) :
       verdicts \in {Verdicts(newEvent, existingEvents)}} : TRUE

\* What follows the query: the loop throws on the first event it cannot
\* score, or the call returns
ScoreRetrieved(newEvent, options, existingEvents) ==
  IF \E i \in 1..Len(existingEvents) : ScoreThrows(newEvent, existingEvents[i])
  THEN Thrown(newEvent, options, existingEvents)
  ELSE ScoreAll(newEvent, options, existingEvents)

checkForDuplicates(store, storeFails, newEvent, options) ==
  IF storeFails THEN Thrown(newEvent, options, <<>>)
  ELSE CHOOSE frame \in
         {ScoreRetrieved(newEvent, options, existingEvents) :
            existingEvents \in {FindEvents(store, newEvent, options)}} : TRUE

----------------------------------------------------------------------------
(* The values the model draws events from                                  *)

TitleA == <<"a", "b", " ", "c", "d", "e">>
TitleAPunct == <<"A", "b", " ", "c", "d", "e", "!">>
TitleB == <<"b", "a", " ", "d", "c", "e">>
\* A title without a word of more than 2 characters
TitleShort == <<"a", "b">>
DescriptionA == <<"a", "b", "c", " ", "d", "e">>
DescriptionB == <<"e", "d", " ", "c", "c", "a">>
HallName == <<"a", "a", "b", "b">>
TitleAI ==
  <<"A", "I", " ", "W", "o", "r", "k", "s", "h", "o", "p", " ", "2", "0",
    "2", "4">>
TitleAIPunct ==
  <<"A", "I", " ", "W", "o", "r", "k", "s", "h", "o", "p", " ", "2", "0",
    "2", "4", "!">>
DescriptionAI ==
  <<"L", "e", "a", "r", "n", " ", "a", "b", "o", "u", "t", " ", "A", "I",
    " ", "a", "n", "d", " ", "M", "L", " ", "f", "o", "r", " ", "2", " ",
    "h", "o", "u", "r", "s">>
TechAuditorium ==
  <<"T", "e", "c", "h", " ", "A", "u", "d", "i", "t", "o", "r", "i", "u",
    "m">>
Street == <<"a", "b", "2">>
City == <<"b", "c">>

Day(n) == n * MsPerDay
StartA == Day(1)

\* A venue as a request gives it: the address and the coordinates optional
VenueFull ==
  [name |-> HallName,
   address |-> Some([street |-> Street, city |-> City]),
   coordinates |-> Some([latitude |-> 1, longitude |-> 1])]
VenueCoordinates ==
  [name |-> HallName, address |-> None,
   coordinates |-> Some([latitude |-> 3, longitude |-> 1])]
VenueName == [name |-> HallName, address |-> None, coordinates |-> None]

\* dateTime of an event starting at start and lasting an hour
At(start) == [start |-> start, end |-> start + 3600000]

\* The fields of an event the detector reads
CandidateOf(title, description, category, venue, start, organizer) ==
  [title |-> title, description |-> description, category |-> category,
   venue |-> venue, dateTime |-> At(start), organizer |-> organizer]

\* The schema's default of venue.address.country makes every stored event
\* carry an address, with street and city undefined unless given
StoredVenue(venue) ==
  [venue EXCEPT !.address =
     IF IsSome(venue.address) THEN venue.address
     ELSE Some([street |-> Undefined, city |-> Undefined])]

\* A stored event: the detector's fields, its identity and its status
StoredEvent(id, candidate, status) ==
  [_id |-> id, title |-> candidate.title, description |-> candidate.description,
   category |-> candidate.category, venue |-> StoredVenue(candidate.venue),
   dateTime |-> candidate.dateTime, organizer |-> candidate.organizer,
   status |-> status]

CandidateX == CandidateOf(TitleA, DescriptionA, "technology", VenueFull, StartA, OrgId(1))
CandidateY == CandidateOf(TitleB, DescriptionA, "technology", VenueName, StartA, OrgId(2))
CandidateZ ==
  CandidateOf(TitleB, DescriptionB, "technology", VenueFull, StartA, OrgId(2))
CandidateMusic == CandidateOf(TitleA, DescriptionA, "music", VenueFull, StartA, OrgId(1))
CandidateLate ==
  CandidateOf(TitleA, DescriptionA, "technology", VenueFull, StartA + Day(7), OrgId(1))
Candidates == {CandidateX, CandidateY, CandidateZ, CandidateMusic, CandidateLate}

\* The events a store of the detector's specification is drawn from, by
\* identity; the store holds the first MaxStore of them, in this order, but
\* for at most MaxMissing
MasterEvent(id) ==
  CASE id = 1 -> StoredEvent(1, CandidateOf(TitleA, DescriptionA, "technology",
                     VenueName, StartA + Day(1), OrgId(1)), "draft")
    [] id = 2 -> StoredEvent(2, CandidateX, "published")
    [] id = 3 -> StoredEvent(3, CandidateOf(TitleAPunct, DescriptionA, "technology",
                     VenueName, StartA, OrgId(2)), "published")
    [] id = 4 -> StoredEvent(4, CandidateOf(TitleA, DescriptionA, "technology",
                     VenueCoordinates, StartA + 1, OrgId(1)), "published")
    [] id = 5 -> StoredEvent(5, CandidateZ, "published")
    [] id = 6 -> StoredEvent(6, CandidateOf(TitleA, DescriptionA, "technology",
                     VenueFull, StartA - Day(1), OrgId(1)), "draft")
    [] id = 7 -> StoredEvent(7, CandidateX, "cancelled")
    [] id = 8 -> StoredEvent(8, CandidateMusic, "published")
    [] id = 9 -> StoredEvent(9, CandidateOf(TitleB, DescriptionA, "technology",
                     VenueFull, StartA, OrgId(1)), "completed")
    [] OTHER -> StoredEvent(id, CandidateOf(TitleA, DescriptionA, "technology",
                     VenueFull, StartA + Day(2), OrgId(1)), "published")

MaxStore == 8
MaxMissing == 2

RECURSIVE SeqOfIds(_, _)
\* The events with identity in ids, by increasing identity up to n
SeqOfIds(ids, n) ==
  IF n = 0 THEN <<>>
  ELSE SeqOfIds(ids, n - 1) \o (IF n \in ids THEN <<MasterEvent(n)>> ELSE <<>>)

Options(threshold, limit, excludeEventId) ==
  [threshold |-> threshold, limit |-> limit, excludeEventId |-> excludeEventId]

\* The options the detector is called with: none, a threshold, a limit, an
\* excluded event
OptionsSet ==
  {Options(None, None, None),
   Options(Some(Frac(7, 10)), None, None),
   Options(Some(Frac(4, 10)), None, None),
   Options(Some(Frac(7, 10)), Some(3), None),
   Options(None, None, Some(2)),
   Options(None, Some(3), Some(2))}

NewDetector ==
  [similarityThreshold |-> Frac(8, 10), dateProximityDays |-> 7, venueProximityKm |-> 5]

\* An HTTP response of the event routes, with the request it answers: the
\* request body, the identity of the event a PUT addresses (target) and the
\* identity of the event a POST created (eventId)
NoResponse ==
  [route |-> "none", status |-> 0, code |-> "", canOverride |-> FALSE,
   request |-> None, target |-> 0, eventId |-> 0, recommendations |-> None]
NoProbe == [fn |-> "none"]

\* A call slot: no call, a call that awaits its query ("querying"), a call
\* whose query was answered and whose continuation has not run ("scoring"),
\* a call that is over ("done").  storeAtQuery and storeFailed remember what
\* the query met: the store as it was, or a failure.
MaxCalls == 2
Slots == 1..MaxCalls
IdleCall ==
  [pc |-> "idle", newEvent |-> None, options |-> None, storeAtQuery |-> None,
   storeFailed |-> FALSE, existingEvents |-> <<>>, frame |-> None]
NoCalls == [slot \in Slots |-> IdleCall]

\* No event open for registration
NoRegister ==
  [maxAttendees |-> 0, currentAttendees |-> 0, waitingList |-> FALSE,
   approvalRequired |-> FALSE, status |-> "draft", registrations |-> {},
   requests |-> <<>>]

\* The page before a create flow: duplicateCheckInProgress = false,
\* lastDuplicateCheck = null, no flow under way
NoClient ==
  [pc |-> "idle", eventData |-> None, duplicateCheckInProgress |-> FALSE,
   lastDuplicateCheck |-> None, duplicateResults |-> None, checkEnded |-> "none",
   stage |-> "none", warned |-> FALSE, userDecision |-> None,
   submitted |-> FALSE, concurrent |-> None, outcome |-> "none",
   lastCheckOf |-> None, posts |-> 0, depth |-> 0]

----------------------------------------------------------------------------
(* The detector called directly, over a store                              *)

InitDetector ==
  /\ detector = NewDetector
  /\ \E ids \in SUBSET (1..MaxStore) :
       /\ Cardinality(ids) >= MaxStore - MaxMissing
       /\ events = SeqOfIds(ids, MaxStore)
  /\ nextId = MaxStore + 1
  /\ call = NoCall
  /\ response = NoResponse
  /\ probe = NoProbe
  /\ client = NoClient
  /\ calls = NoCalls
  /\ register = NoRegister

\* await duplicateDetector.checkForDuplicates(newEvent, options); the store's
\* query succeeds or fails.  The model follows one call at a time.
Detect(newEvent, options, storeFails) ==
  /\ ~call.made
  /\ call' = checkForDuplicates(events, storeFails, newEvent, options)
  /\ UNCHANGED <<detector, events, nextId, response, probe>>

\* The caller is done with the outcome of the call
Return ==
  /\ call.made
  /\ call' = NoCall
  /\ UNCHANGED <<detector, events, nextId, response, probe>>

NextDetector ==
  \/ /\ ~call.made
     /\ \E newEvent \in Candidates, options \in OptionsSet, storeFails \in BOOLEAN :
          Detect(newEvent, options, storeFails)
     /\ UNCHANGED <<client, calls, register>>
  \/ Return /\ UNCHANGED <<client, calls, register>>

SpecDetector == InitDetector /\ [][NextDetector]_vars

----------------------------------------------------------------------------
(* The event routes: POST /api/events/check-duplicates, POST /api/events,   *)
(* PUT /api/events/:id.  A handler runs from request to response in one    *)
(* step.  Request bodies have passed the routes' validator chains.         *)

MaxEvents == 2

\* The body of a POST: every validated field is there
PostBody(candidate, skip) ==
  [title |-> candidate.title, description |-> candidate.description,
   category |-> candidate.category, venue |-> candidate.venue,
   dateTime |-> candidate.dateTime, skipDuplicateCheck |-> skip,
   excludeEventId |-> None]

CandidateHigh ==
  CandidateOf(TitleA, DescriptionA, "technology", VenueName, StartA + Day(1), OrgId(1))

PostBodies ==
  {PostBody(CandidateX, FALSE), PostBody(CandidateX, TRUE),
   PostBody(CandidateHigh, FALSE)}

\* The bodies of POST /api/events/check-duplicates
CheckBodies == {PostBody(CandidateX, FALSE), PostBody(CandidateHigh, FALSE)}

\* The body of a PUT: any field may be missing
PutBody(venue, status, skip) ==
  [title |-> None, description |-> None, category |-> None, venue |-> venue,
   dateTime |-> None, status |-> status, skipDuplicateCheck |-> skip]

\* The model's PUT bodies leave dateTime alone, so that the handler's check
\* of the dates (which it makes only when the body has a dateTime) is skipped
PutBodies ==
  {PutBody(Some(VenueFull), None, FALSE),
   PutBody(Some(VenueFull), None, TRUE),
   PutBody(None, Some("cancelled"), FALSE)}

\* The users who hold the organizer role and create events; the other users
\* may only address events, and are refused
Organizers == {1}

\* The instants at which a request arrives
Nows == {0, Day(3)}

Respond(route, status, code, request, target, eventId) ==
  [route |-> route, status |-> status, code |-> code,
   canOverride |-> (code = "DUPLICATE_DETECTED"),
   request |-> Some(request), target |-> target, eventId |-> eventId,
   recommendations |-> None]

\* { ...req.body, organizer: req.user._id }
TempEvent(body, user) ==
  [title |-> body.title, description |-> body.description,
   category |-> body.category, venue |-> body.venue,
   dateTime |-> body.dateTime, organizer |-> OrgId(user)]

\* duplicateAnalysis.duplicates.filter(d => d.confidence === 'VERY_HIGH')
VeryHighConfidenceDuplicates(result) ==
  {k \in 1..Len(result.duplicates) : result.duplicates[k].confidence = "VERY_HIGH"}

\* A gate that blocks on any duplicate
AnyDuplicateBlocks(result) == Len(result.duplicates) > 0

\* veryHighConfidenceDuplicates.length > 0
GateBlocks(result) == VeryHighConfidenceDuplicates(result) # {}

\* The options of the gate of POST /api/events
PostGateOptions ==
  [threshold |-> Some(Frac(8, 10)), limit |-> None, excludeEventId |-> None]

\* Options of the gate of an update that exclude no event
PutGateOptionsAll(event) ==
  [threshold |-> Some(Frac(8, 10)), limit |-> None, excludeEventId |-> None]

\* The options of the gate of PUT /api/events/:id
PutGateOptions(event) ==
  [threshold |-> Some(Frac(8, 10)), limit |-> None, excludeEventId |-> Some(event._id)]

\* A gate that runs whatever the body's flag
AlwaysRunsGate(body) == TRUE

\* if (!req.body.skipDuplicateCheck)
PostRunsGate(body) == ~body.skipDuplicateCheck

\* Event.create(eventData): the schema's defaults apply
CreatedEvent(id, body, user) ==
  StoredEvent(id, TempEvent(body, user), "draft")

\* POST /api/events
PostEvent(user, body, now, storeFails) ==
  LET route == "POST /api/events"
      startDate == body.dateTime.start
      endDate == body.dateTime.end
      create ==
        /\ events' = Append(events, CreatedEvent(nextId, body, user))
        /\ nextId' = nextId + 1
        /\ response' = Respond(route, 201, "", body, 0, nextId)
  IN  /\ Len(events) < MaxEvents
      /\ UNCHANGED <<detector, probe>>
      /\ IF startDate <= now \/ endDate <= startDate
         THEN /\ response' = Respond(route, 400, "", body, 0, 0)
              /\ call' = NoCall
              /\ UNCHANGED <<events, nextId>>
         ELSE IF PostRunsGate(body)
         THEN \E gate \in {checkForDuplicates(events, storeFails, TempEvent(body, user),
                                              PostGateOptions)} :
                /\ call' = gate
                /\ IF gate.threw
                   THEN \* the handler's catch: 'Server error creating event'
                        /\ response' = Respond(route, 500, "", body, 0, 0)
                        /\ UNCHANGED <<events, nextId>>
                   ELSE IF GateBlocks(Get(gate.result))
                   THEN /\ response' =
                             Respond(route, 409, "DUPLICATE_DETECTED", body, 0, 0)
                        /\ UNCHANGED <<events, nextId>>
                   ELSE create
         ELSE /\ call' = NoCall
              /\ create

\* significantFields.some(field => req.body[field] !== undefined)
HasSignificantChanges(body) ==
  \/ IsSome(body.title) \/ IsSome(body.description) \/ IsSome(body.dateTime)
  \/ IsSome(body.venue) \/ IsSome(body.category)

\* if (hasSignificantChanges && !req.body.skipDuplicateCheck)
PutRunsGate(body) == HasSignificantChanges(body) /\ ~body.skipDuplicateCheck

Override(field, old) == IF IsSome(field) THEN Get(field) ELSE old

\* { ...event.toObject(), ...req.body, organizer: event.organizer._id || event.organizer }
UpdatedEvent(event, body) ==
  [title |-> Override(body.title, event.title),
   description |-> Override(body.description, event.description),
   category |-> Override(body.category, event.category),
   venue |-> Override(body.venue, event.venue),
   dateTime |-> Override(body.dateTime, event.dateTime),
   organizer |-> event.organizer]

\* Event.findByIdAndUpdate(req.params.id, req.body, ...): the fields of the
\* body replace the stored ones
ApplyUpdate(event, body) ==
  [event EXCEPT !.title = Override(body.title, @),
                !.description = Override(body.description, @),
                !.category = Override(body.category, @),
                !.venue = Override(body.venue, @),
                !.dateTime = Override(body.dateTime, @),
                !.status = Override(body.status, @)]

\* The position in the store of the event with identity id, 0 if there is none
IndexOf(id) ==
  IF \E i \in 1..Len(events) : events[i]._id = id
  THEN CHOOSE i \in 1..Len(events) : events[i]._id = id
  ELSE 0

\* PUT /api/events/:id, behind the eventOrganizerOrAdmin middleware
PutEvent(user, id, body, storeFails) ==
  LET route == "PUT /api/events/:id"
      i == IndexOf(id)
      event == events[i]
      update ==
        /\ events' = [events EXCEPT ![i] = ApplyUpdate(event, body)]
        /\ response' = Respond(route, 200, "", body, id, 0)
  IN  /\ UNCHANGED <<detector, nextId, probe>>
      /\ IF i = 0
         THEN /\ response' = Respond(route, 404, "", body, id, 0)
              /\ call' = NoCall
              /\ UNCHANGED events
         ELSE IF OrganizerToString(event.organizer) # OrganizerToString(OrgId(user))
         THEN /\ response' = Respond(route, 403, "", body, id, 0)
              /\ call' = NoCall
              /\ UNCHANGED events
         ELSE IF event.status = "completed" \/ event.status = "cancelled"
         THEN /\ response' = Respond(route, 400, "", body, id, 0)
              /\ call' = NoCall
              /\ UNCHANGED events
         ELSE IF PutRunsGate(body)
         THEN \E gate \in {checkForDuplicates(events, storeFails,
                                              UpdatedEvent(event, body),
                                              PutGateOptions(event))} :
                /\ call' = gate
                /\ IF gate.threw
                   THEN \* the handler's catch: 'Server error updating event'
                        /\ response' = Respond(route, 500, "", body, id, 0)
                        /\ UNCHANGED events
                   ELSE IF GateBlocks(Get(gate.result))
                   THEN /\ response' =
                             Respond(route, 409, "DUPLICATE_DETECTED", body, id, 0)
                        /\ UNCHANGED events
                   ELSE update
         ELSE /\ call' = NoCall
              /\ update

\* The options of POST /api/events/check-duplicates
AdvisoryOptions(body) ==
  [threshold |-> Some(Frac(7, 10)), limit |-> None,
   excludeEventId |-> body.excludeEventId]

\* recommendations of the response of POST /api/events/check-duplicates
Recommendations(result) ==
  [shouldBlock |-> GateBlocks(result),
   shouldWarn |-> (Len(result.duplicates) > 0 \/ Len(result.suggestions) > 0)]

\* POST /api/events/check-duplicates
CheckDuplicates(user, body, storeFails) ==
  LET route == "POST /api/events/check-duplicates"
  IN  /\ \E analysis \in {checkForDuplicates(events, storeFails, TempEvent(body, user),
                                                 AdvisoryOptions(body))} :
           /\ call' = analysis
           /\ response' =
                IF analysis.threw
                THEN Respond(route, 500, "", body, 0, 0)
                ELSE [Respond(route, 200, "", body, 0, 0) EXCEPT
                        !.recommendations = Some(Recommendations(Get(analysis.result)))]
      /\ UNCHANGED <<detector, events, nextId, probe>>

Init ==
  /\ detector = NewDetector
  /\ events = <<>>
  /\ nextId = 1
  /\ call = NoCall
  /\ response = NoResponse
  /\ probe = NoProbe
  /\ client = NoClient
  /\ calls = NoCalls
  /\ register = NoRegister

Next ==
  \/ /\ \E user \in Organizers, body \in PostBodies, now \in Nows,
           storeFails \in BOOLEAN :
          PostEvent(user, body, now, storeFails)
     /\ UNCHANGED <<client, calls, register>>
  \/ /\ \E user \in Users, id \in 1..MaxEvents, body \in PutBodies,
           storeFails \in BOOLEAN :
          PutEvent(user, id, body, storeFails)
     /\ UNCHANGED <<client, calls, register>>
  \/ /\ \E user \in Organizers, body \in CheckBodies, storeFails \in BOOLEAN :
          CheckDuplicates(user, body, storeFails)
     /\ UNCHANGED <<client, calls, register>>

Spec == Init /\ [][Next]_vars

----------------------------------------------------------------------------
(* Properties of checkForDuplicates                                        *)

Returned == call.made /\ ~call.threw
CallEvent == Get(call.newEvent)
CallOptions == Get(call.options)
CallResult == Get(call.result)

\* options.threshold, 0.8 when the caller gives none
GivenThreshold ==
  IF IsSome(CallOptions.threshold) THEN Get(CallOptions.threshold) ELSE Frac(8, 10)
\* options.limit, 50 when the caller gives none
GivenLimit == IF IsSome(CallOptions.limit) THEN Get(CallOptions.limit) ELSE 50

\* The probability of the candidate of the call against event e
ProbabilityOf(e) == calculateDuplicateProbability(CallEvent, e).probability

\* How often event e occurs in a list of verdicts
Occurrences(verdicts, e) ==
  Cardinality({k \in 1..Len(verdicts) : verdicts[k].event._id = e._id})

SortedDesc(verdicts) ==
  \A k \in 1..(Len(verdicts) - 1) :
    RGe(verdicts[k].probability, verdicts[k + 1].probability)

\* list holds min(cap, Len(bucket)) verdicts of bucket, none of them less
\* probable than a verdict of bucket it leaves out
TopOf(list, bucket, cap) ==
  /\ Len(list) = (IF Len(bucket) < cap THEN Len(bucket) ELSE cap)
  /\ \A k \in 1..Len(list) : \E j \in 1..Len(bucket) : bucket[j] = list[k]
  /\ \A j \in 1..Len(bucket) :
       Occurrences(list, bucket[j].event) = 0 =>
         \A k \in 1..Len(list) : RGe(list[k].probability, bucket[j].probability)

\* C1: every retrieved event lands in exactly one place: the duplicates
\* bucket when its probability >= options.threshold, else the suggestions
\* bucket when its probability >= 0.5, else nowhere; the buckets hold nothing
\* but retrieved events, and no event is in both.
C1_Partition ==
  Returned =>
    /\ \A i \in 1..Len(call.existingEvents) :
         LET e == call.existingEvents[i]
             p == ProbabilityOf(e)
             nDup == Occurrences(call.duplicates, e)
             nSug == Occurrences(call.suggestions, e)
         IN  IF RGe(p, GivenThreshold) THEN nDup = 1 /\ nSug = 0
             ELSE IF RGe(p, Frac(1, 2)) THEN nDup = 0 /\ nSug = 1
             ELSE nDup = 0 /\ nSug = 0
    /\ \A k \in 1..Len(call.duplicates) :
         \E i \in 1..Len(call.existingEvents) :
           call.existingEvents[i] = call.duplicates[k].event
    /\ \A k \in 1..Len(call.suggestions) :
         \E i \in 1..Len(call.existingEvents) :
           call.existingEvents[i] = call.suggestions[k].event

\* A call with threshold 0.8 whose pool holds a duplicate of probability
\* 0.95, a MEDIUM suggestion and an event that lands nowhere
C1_Witness ==
  /\ Returned
  /\ GivenThreshold = Frac(8, 10)
  /\ \E k \in 1..Len(call.duplicates) :
       call.duplicates[k].probability = Frac(95, 100)
  /\ \E k \in 1..Len(call.suggestions) : call.suggestions[k].confidence = "MEDIUM"
  /\ \E i \in 1..Len(call.existingEvents) :
       /\ Occurrences(call.duplicates, call.existingEvents[i]) = 0
       /\ Occurrences(call.suggestions, call.existingEvents[i]) = 0

\* C2: the result has at most 5 duplicates and at most 3 suggestions, each
\* list in non-increasing order of probability and made of the most probable
\* members of its bucket.
C2_TopSorted ==
  Returned =>
    /\ Len(CallResult.duplicates) <= 5
    /\ Len(CallResult.suggestions) <= 3
    /\ SortedDesc(CallResult.duplicates)
    /\ SortedDesc(CallResult.suggestions)
    /\ TopOf(CallResult.duplicates, call.duplicates, 5)
    /\ TopOf(CallResult.suggestions, call.suggestions, 3)
    /\ \A k \in 1..Len(CallResult.duplicates) :
         CallResult.duplicates[k].probability
           = ProbabilityOf(CallResult.duplicates[k].event)

\* More than 5 events qualify as duplicates, with different probabilities,
\* and the result holds 5 of them
C2_Witness ==
  /\ Returned
  /\ Len(call.duplicates) > 5
  /\ Len(CallResult.duplicates) = 5
  /\ RGt(CallResult.duplicates[1].probability, CallResult.duplicates[5].probability)

\* C3: isDuplicate is true exactly when the returned duplicates list is not
\* empty, which is exactly when some retrieved event has a probability >=
\* threshold.
C3_IsDuplicate ==
  Returned =>
    /\ CallResult.isDuplicate <=> Len(CallResult.duplicates) > 0
    /\ CallResult.isDuplicate <=>
         \E i \in 1..Len(call.existingEvents) :
           RGe(ProbabilityOf(call.existingEvents[i]), GivenThreshold)

\* A call that found a duplicate, and one more event that is only a suggestion
C3_Witness ==
  /\ Returned
  /\ CallResult.isDuplicate
  /\ Len(CallResult.duplicates) > 0
  /\ Len(CallResult.suggestions) > 0

WithinDays(t1, t2, days) == Abs(t1 - t2) <= days * 86400000

\* C8: every verdict of the result refers to a stored event that is draft or
\* published, of the candidate's category, starting within 7 days
\* (inclusive) of the candidate's start, and other than excludeEventId; at
\* most `limit` (default 50) stored events are scored.
C8_Retrieval ==
  Returned =>
    /\ \A v \in {CallResult.duplicates[k] : k \in 1..Len(CallResult.duplicates)}
             \cup {CallResult.suggestions[k] : k \in 1..Len(CallResult.suggestions)} :
         \E i \in 1..Len(events) :
           /\ events[i]._id = v.event._id
           /\ events[i].title = v.event.title
           /\ events[i].status \in {"draft", "published"}
           /\ events[i].category = CallEvent.category
           /\ WithinDays(events[i].dateTime.start, CallEvent.dateTime.start, 7)
           /\ IsSome(CallOptions.excludeEventId) =>
                events[i]._id # Get(CallOptions.excludeEventId)
    /\ Len(call.existingEvents) <= GivenLimit

\* A call with a limit and an excluded event, over a store that holds the
\* excluded event, a cancelled event, an event of another category and more
\* matching events than the limit; an event exactly 7 days away is scored
C8_Witness ==
  /\ Returned
  /\ IsSome(CallOptions.limit)
  /\ IsSome(CallOptions.excludeEventId)
  /\ Len(call.existingEvents) = GivenLimit
  /\ \E i \in 1..Len(events) : events[i]._id = Get(CallOptions.excludeEventId)
  /\ \E i \in 1..Len(events) : events[i].status = "cancelled"
  /\ \E i \in 1..Len(events) : events[i].category # CallEvent.category
  /\ \E i \in 1..Len(events) :
       Abs(events[i].dateTime.start - CallEvent.dateTime.start) > 7 * 86400000
  /\ \E k \in 1..Len(CallResult.suggestions) :
       Abs(CallResult.suggestions[k].event.dateTime.start - CallEvent.dateTime.start)
         = 7 * 86400000

----------------------------------------------------------------------------
(* Properties of the gate of POST /api/events and PUT /api/events/:id      *)

PostRoute == "POST /api/events"
PutRoute == "PUT /api/events/:id"
GateRoute == response.route \in {PostRoute, PutRoute}
Request == Get(response.request)

\* The stored event with identity id
Stored(id) == events[IndexOf(id)]

\* The bucket of the gate's call holds a verdict of probability >= 0.9
BucketHasVeryHigh ==
  \E k \in 1..Len(call.duplicates) : RGe(call.duplicates[k].probability, Frac(9, 10))

\* The request of the response took effect: the created event is stored with
\* the fields of the body, or the addressed event carries the body's fields
TookEffect ==
  IF response.route = PostRoute
  THEN /\ response.status = 201
       /\ IndexOf(response.eventId) # 0
       /\ Stored(response.eventId).title = Request.title
       /\ Stored(response.eventId).dateTime = Request.dateTime
       /\ Stored(response.eventId).venue = StoredVenue(Request.venue)
  ELSE /\ response.status = 200
       /\ IndexOf(response.target) # 0
       /\ IsSome(Request.venue) => Stored(response.target).venue = Get(Request.venue)
       /\ IsSome(Request.status) => Stored(response.target).status = Get(Request.status)

\* C4: when the gate of a create or update has run (with threshold 0.8) and
\* the detector has returned, the response is 409 DUPLICATE_DETECTED exactly
\* when the duplicates bucket holds a verdict of probability >= 0.9, which is
\* exactly a VERY_HIGH verdict among the returned duplicates; otherwise, HIGH
\* duplicates or not, the event is created or updated.
C4_GateBlocksOnVeryHigh ==
  (GateRoute /\ Returned) =>
    /\ call.threshold = Frac(8, 10)
    /\ (response.status = 409 /\ response.code = "DUPLICATE_DETECTED")
         <=> BucketHasVeryHigh
    /\ BucketHasVeryHigh <=>
         \E k \in 1..Len(CallResult.duplicates) :
           CallResult.duplicates[k].confidence = "VERY_HIGH"
    /\ ~BucketHasVeryHigh => TookEffect

\* An event is created although the gate found a duplicate, which is HIGH
C4_Witness ==
  /\ response.route = PostRoute
  /\ Returned
  /\ response.status = 201
  /\ Len(CallResult.duplicates) > 0
  /\ \A k \in 1..Len(CallResult.duplicates) :
       /\ CallResult.duplicates[k].confidence = "HIGH"
       /\ RLt(CallResult.duplicates[k].probability, Frac(9, 10))
  /\ Len(events) = 2

\* C5: when checkForDuplicates throws during a create or an update, the
\* handler still creates or updates the event.
C5_GateFailsOpen ==
  (GateRoute /\ call.made /\ call.threw) => TookEffect

\* C6: a create or update with skipDuplicateCheck = true makes no call of the
\* detector and is not answered 409 (nor 500), whatever the store holds; a
\* 409 DUPLICATE_DETECTED response carries canOverride = true, and the
\* blocked body sent again with the flag takes effect.
C6_SkipBypassesGate ==
  GateRoute =>
    /\ Request.skipDuplicateCheck =>
         /\ ~call.made
         /\ response.status \notin {409, 500}
         /\ response.status \in {200, 201} => TookEffect
         /\ response.status \in {200, 201, 400, 403, 404}
    /\ response.status = 409 =>
         /\ response.code = "DUPLICATE_DETECTED"
         /\ response.canOverride
         /\ ~Request.skipDuplicateCheck

\* A create with the flag stores a second event equal to the one stored
C6_Witness ==
  /\ response.route = PostRoute
  /\ Request.skipDuplicateCheck
  /\ response.status = 201
  /\ ~call.made
  /\ Len(events) = 2
  /\ events[1].title = events[2].title
  /\ events[1].venue = events[2].venue
  /\ events[1].dateTime = events[2].dateTime

\* The request names one of the significant fields
Significant ==
  \/ IsSome(Request.title) \/ IsSome(Request.description)
  \/ IsSome(Request.dateTime) \/ IsSome(Request.venue) \/ IsSome(Request.category)

\* C7: an update calls the detector only when the body has one of title,
\* description, dateTime, venue, category and skipDuplicateCheck is not set
\* (and then it does, for an event its organizer may update); an update with
\* none of them is never answered 409; the call excludes the updated event,
\* which is not among the events scored.
C7_UpdateGate ==
  response.route = PutRoute =>
    /\ call.made => Significant /\ ~Request.skipDuplicateCheck
    /\ (Significant /\ ~Request.skipDuplicateCheck
          /\ response.status \notin {400, 403, 404}) => call.made
    /\ ~Significant => response.status # 409
    /\ call.made =>
         /\ CallOptions.excludeEventId = Some(response.target)
         /\ \A i \in 1..Len(call.existingEvents) :
              call.existingEvents[i]._id # response.target

\* An update of the venue of the only stored event: the gate runs, scores
\* nothing, and the update is made
C7_Witness ==
  /\ response.route = PutRoute
  /\ Returned
  /\ Significant
  /\ response.status = 200
  /\ Len(events) = 1
  /\ Len(call.existingEvents) = 0
  /\ events[1].venue = Get(Request.venue)

----------------------------------------------------------------------------
(* getConfidenceLevel applied to probabilities, and in the verdicts        *)

\* Probabilities in hundred-thousandths: the breakpoints, their neighbours
\* and values between
ProbabilityGrid ==
  {Frac(n, 100000) :
     n \in {0, 20000, 39999, 40000, 50000, 59999, 60000, 70000, 79999, 80000,
            85000, 89999, 90000, 95000, 100000}}

\* getConfidenceLevel of two probabilities; a behaviour applies it once
Classify(p, q) ==
  /\ ~call.made
  /\ probe = NoProbe
  /\ probe' = [fn |-> "getConfidenceLevel", p |-> p, level |-> getConfidenceLevel(p),
               q |-> q, levelq |-> getConfidenceLevel(q)]
  /\ UNCHANGED <<detector, events, nextId, call, response>>

InitClassify ==
  /\ detector = NewDetector
  /\ events = SeqOfIds(1..MaxStore, MaxStore)
  /\ nextId = MaxStore + 1
  /\ call = NoCall
  /\ response = NoResponse
  /\ probe = NoProbe
  /\ client = NoClient
  /\ calls = NoCalls
  /\ register = NoRegister

\* One application is followed at a time: a call of the detector is made
\* from the initial state
NextClassify ==
  \/ /\ probe = NoProbe
     /\ \E p \in ProbabilityGrid, q \in ProbabilityGrid : Classify(p, q)
     /\ UNCHANGED <<client, calls, register>>
  \/ /\ probe = NoProbe
     /\ \E newEvent \in Candidates, options \in OptionsSet :
          Detect(newEvent, options, FALSE)
     /\ UNCHANGED <<client, calls, register>>
  \/ Return /\ UNCHANGED <<client, calls, register>>

SpecClassify == InitClassify /\ [][NextClassify]_vars

\* The tiers as the documentation tabulates them
Tier(p) ==
  CASE RGe(p, Frac(9, 10)) -> "VERY_HIGH"
    [] RGe(p, Frac(8, 10)) /\ RLt(p, Frac(9, 10)) -> "HIGH"
    [] RGe(p, Frac(6, 10)) /\ RLt(p, Frac(8, 10)) -> "MEDIUM"
    [] RGe(p, Frac(4, 10)) /\ RLt(p, Frac(6, 10)) -> "LOW"
    [] RLt(p, Frac(4, 10)) -> "VERY_LOW"

TierRank(level) ==
  CASE level = "VERY_LOW" -> 0
    [] level = "LOW" -> 1
    [] level = "MEDIUM" -> 2
    [] level = "HIGH" -> 3
    [] level = "VERY_HIGH" -> 4

ConfidenceIsTier(verdicts) ==
  \A k \in 1..Len(verdicts) : verdicts[k].confidence = Tier(verdicts[k].probability)

\* C9: getConfidenceLevel(p) is VERY_HIGH for p >= 0.9, HIGH for 0.8 <= p <
\* 0.9, MEDIUM for 0.6 <= p < 0.8, LOW for 0.4 <= p < 0.6, VERY_LOW for p <
\* 0.4; it never decreases when p grows; the confidence of every verdict of a
\* call is the tier of the verdict's probability.
C9_Classify ==
  /\ probe.fn = "getConfidenceLevel" =>
       /\ probe.level = Tier(probe.p)
       /\ probe.levelq = Tier(probe.q)
       /\ RLe(probe.p, probe.q) => TierRank(probe.level) <= TierRank(probe.levelq)
  /\ Returned =>
       /\ ConfidenceIsTier(call.duplicates)
       /\ ConfidenceIsTier(call.suggestions)
       /\ ConfidenceIsTier(CallResult.duplicates)
       /\ ConfidenceIsTier(CallResult.suggestions)

\* 0.9 is VERY_HIGH and 0.89999 is HIGH
C9_Witness ==
  /\ probe.fn = "getConfidenceLevel"
  /\ probe.p = Frac(9, 10)
  /\ probe.level = "VERY_HIGH"
  /\ probe.q = Frac(89999, 100000)
  /\ probe.levelq = "HIGH"

----------------------------------------------------------------------------
(* calculateDuplicateProbability applied to pairs of events                *)

ScoreTitles == {TitleA, TitleAPunct, TitleB, TitleShort}
ScoreDescriptions == {DescriptionA, DescriptionB}
ScoreCategories == {"technology", "music"}
ScoreVenues ==
  {VenueFull, VenueCoordinates, VenueName, StoredVenue(VenueCoordinates),
   StoredVenue(VenueName)}
ScoreStarts ==
  {StartA, StartA + 1, StartA + Day(1), StartA + Day(7), StartA + Day(8)}
ScoreOrganizers == {OrgId(1), OrgId(2), OrgDoc(1)}

CandidateShort ==
  CandidateOf(TitleShort, DescriptionA, "technology", VenueFull, StartA, OrgId(1))

\* The events the events of ScoreEvents are scored against
ScoreCandidates == {CandidateX, CandidateY, CandidateZ, CandidateShort}

ScoreEvents ==
  {CandidateOf(t, d, c, v, s, o) :
     t \in ScoreTitles, d \in ScoreDescriptions, c \in ScoreCategories,
     v \in ScoreVenues, s \in ScoreStarts, o \in ScoreOrganizers}

\* calculateDuplicateProbability(event1, event2), when it returns; a
\* behaviour applies it once
Score(event1, event2) ==
  /\ probe = NoProbe
  /\ ~ScoreThrows(event1, event2)
  /\ probe' = [fn |-> "calculateDuplicateProbability", event1 |-> event1,
               event2 |-> event2,
               result |-> calculateDuplicateProbability(event1, event2)]
  /\ UNCHANGED <<detector, events, nextId, call, response>>

NextScore ==
  /\ probe = NoProbe
  /\ \E event1 \in ScoreCandidates, event2 \in ScoreEvents : Score(event1, event2)
  /\ UNCHANGED <<client, calls, register>>

SpecScore == Init /\ [][NextScore]_vars

InUnit(r) == RGe(r, RZero) /\ RLe(r, ROne)

\* C10: calculateDuplicateProbability returns a probability in [0,1], the
\* four similarity and proximity factors in [0,1], categoryMatch and
\* organizerMatch equal to 0 or 1, and the probability is 0.35 title + 0.20
\* description + 0.15 date + 0.15 venue + 0.10 category + 0.05 organizer.
C10_Probability ==
  probe.fn = "calculateDuplicateProbability" =>
    LET f == probe.result.factors
    IN  /\ InUnit(probe.result.probability)
        /\ InUnit(f.titleSimilarity)
        /\ InUnit(f.descriptionSimilarity)
        /\ InUnit(f.dateProximity)
        /\ InUnit(f.venueProximity)
        /\ f.categoryMatch \in {0, 1}
        /\ f.organizerMatch \in {0, 1}
        /\ probe.result.probability =
             RAdd(RMul(Frac(35, 100), f.titleSimilarity),
             RAdd(RMul(Frac(20, 100), f.descriptionSimilarity),
             RAdd(RMul(Frac(15, 100), f.dateProximity),
             RAdd(RMul(Frac(15, 100), f.venueProximity),
             RAdd(RMul(Frac(10, 100), Frac(f.categoryMatch, 1)),
                  RMul(Frac(5, 100), Frac(f.organizerMatch, 1)))))))

\* Two equal events, organizers included: every factor is at its maximum and
\* the probability is 1
C10_Witness ==
  /\ probe.fn = "calculateDuplicateProbability"
  /\ probe.event1 = probe.event2
  /\ probe.result.factors.organizerMatch = 1
  /\ probe.result.factors.categoryMatch = 1
  /\ probe.result.probability = ROne

\* The two events of the probe agree in title, description, venue name,
\* start instant, category and organizer
SameEvent ==
  /\ probe.fn = "calculateDuplicateProbability"
  /\ probe.event1.title = probe.event2.title
  /\ probe.event1.description = probe.event2.description
  /\ probe.event1.venue.name = probe.event2.venue.name
  /\ probe.event1.dateTime.start = probe.event2.dateTime.start
  /\ probe.event1.category = probe.event2.category
  /\ probe.event1.organizer = probe.event2.organizer

\* Both venues carry coordinates and an address, and they are equal
SameFullVenue ==
  /\ probe.event1.venue = probe.event2.venue
  /\ IsSome(probe.event1.venue.coordinates)
  /\ IsSome(probe.event1.venue.address)

----------------------------------------------------------------------------
(* The detector called on the documentation's example and on damaged data  *)

VenueTech == [name |-> TechAuditorium, address |-> None, coordinates |-> None]

CandidateAI ==
  CandidateOf(TitleAI, DescriptionAI, "technology", VenueTech, StartA, OrgId(1))

\* Candidates with a required field missing (undefined)
CandidateNoTitle ==
  CandidateOf(Undefined, DescriptionA, "technology", VenueFull, StartA, OrgId(1))
CandidateNoVenueName ==
  CandidateOf(TitleA, DescriptionA, "technology",
              [VenueFull EXCEPT !.name = Undefined], StartA, OrgId(1))

ScenarioCandidates == {CandidateAI, CandidateX, CandidateNoTitle, CandidateNoVenueName}

\* A user id no User document has: populate() leaves null in its place
NoSuchUser == CHOOSE u \in 1..(Cardinality(Users) + 1) : u \notin Users

\* The stored events of the scenarios: the example's event, a record whose
\* organizer no longer exists, and two sound events
ScenarioEvent(id) ==
  CASE id = 1 -> StoredEvent(1, CandidateOf(TitleAIPunct, DescriptionAI, "technology",
                     VenueTech, StartA, OrgId(1)), "published")
    [] id = 2 -> StoredEvent(2, CandidateOf(TitleA, DescriptionA, "technology",
                     VenueFull, StartA, OrgId(NoSuchUser)), "published")
    [] id = 3 -> StoredEvent(3, CandidateOf(TitleA, DescriptionAI, "technology",
                     VenueFull, StartA, OrgId(1)), "published")
    [] OTHER -> StoredEvent(id, CandidateOf(TitleAI, DescriptionAI, "technology",
                     VenueTech, StartA + Day(1), OrgId(2)), "draft")

ScenarioIds == {1, 2, 3, 4}

RECURSIVE ScenarioStore(_, _)
\* The scenario events with identity in ids, by increasing identity up to n
ScenarioStore(ids, n) ==
  IF n = 0 THEN <<>>
  ELSE ScenarioStore(ids, n - 1) \o (IF n \in ids THEN <<ScenarioEvent(n)>> ELSE <<>>)

ScenarioOptions == {Options(None, None, None), Options(Some(Frac(7, 10)), None, None)}

InitScenario ==
  /\ detector = NewDetector
  /\ \E ids \in SUBSET ScenarioIds :
       events = ScenarioStore(ids, Cardinality(ScenarioIds))
  /\ nextId = Cardinality(ScenarioIds) + 1
  /\ call = NoCall
  /\ response = NoResponse
  /\ probe = NoProbe
  /\ client = NoClient
  /\ calls = NoCalls
  /\ register = NoRegister

NextScenario ==
  \/ /\ ~call.made
     /\ \E newEvent \in ScenarioCandidates, options \in ScenarioOptions,
           storeFails \in BOOLEAN :
          Detect(newEvent, options, storeFails)
     /\ UNCHANGED <<client, calls, register>>
  \/ Return /\ UNCHANGED <<client, calls, register>>

SpecScenario == InitScenario /\ [][NextScenario]_vars

----------------------------------------------------------------------------
(* The documentation's example: a title that differs by one "!"            *)

\* The verdicts of the last call, duplicates first
CallVerdicts == call.duplicates \o call.suggestions

\* The last call checked the example's candidate and returned
ExampleChecked == Returned /\ call.newEvent = Some(CandidateAI)

\* The verdicts of the last call on the stored "AI Workshop 2024!" event
ExampleVerdicts ==
  {CallVerdicts[i] : i \in {k \in 1..Len(CallVerdicts) :
                              CallVerdicts[k].event._id = ScenarioEvent(1)._id}}

TitleClause(v) == <<"Event titles are N% similar", Percent(v.factors.titleSimilarity)>>
CategoryClause == <<"Events are in the same category">>

Clauses(v) == {generateExplanation(v)[i] : i \in 1..Len(generateExplanation(v))}

\* C12 as stated: the candidate "AI Workshop 2024" against the stored "AI
\* Workshop 2024!", otherwise identical, yields probability >= 0.95 and
\* VERY_HIGH, and the explanation has the title clause and the category clause.
C12_ExampleVeryHigh ==
  ExampleChecked =>
    \A v \in ExampleVerdicts :
      /\ RGe(v.probability, Frac(95, 100))
      /\ v.confidence = "VERY_HIGH"
      /\ TitleClause(v) \in Clauses(v)
      /\ CategoryClause \in Clauses(v)

\* C12, amended: the word sets are taken before punctuation is stripped, so
\* "2024" and "2024!" are different words: the title similarity is
\* 0.6 * 1 + 0.4 * 1/3 = 11/15, the venues (a name only) have proximity 0.5,
\* the populated organizer never matches, and the probability is 469/600
\* (0.78), confidence MEDIUM: a suggestion at the default threshold, a
\* duplicate at threshold 0.7.  The explanation has the description, date and
\* category clauses and no title clause (0.73 is not above 0.8).
C12_Example ==
  ExampleChecked =>
    /\ (\E i \in 1..Len(events) : events[i] = ScenarioEvent(1)) => ExampleVerdicts # {}
    /\ \A v \in ExampleVerdicts :
         /\ v.factors.titleSimilarity = Frac(11, 15)
         /\ v.factors.descriptionSimilarity = ROne
         /\ v.factors.venueProximity = Frac(5, 10)
         /\ v.factors.organizerMatch = 0
         /\ v.probability = Frac(469, 600)
         /\ v.confidence = "MEDIUM"
         /\ generateExplanation(v) =
              << <<"Event descriptions are N% similar", 100>>,
                 <<"Events are scheduled very close in time">>,
                 CategoryClause >>
         /\ TitleClause(v) \notin Clauses(v)
         /\ (\E i \in 1..Len(call.duplicates) : call.duplicates[i] = v)
              <=> RGe(v.probability, GivenThreshold)

\* The example checked at the default threshold: its verdict is a suggestion
C12_Witness ==
  /\ ExampleChecked
  /\ ~IsSome(CallOptions.threshold)
  /\ ExampleVerdicts # {}
  /\ \A v \in ExampleVerdicts : \E i \in 1..Len(call.suggestions) : call.suggestions[i] = v

----------------------------------------------------------------------------
(* calculateCombinedSimilarity applied to a pair of strings                *)

MaxTextLen == 3

\* A letter in both cases, whitespace and punctuation
TextChars == {"a", "A", " ", "!"}

TextsUpTo(len) == UNION {[1..n -> TextChars] : n \in 0..len}

Combine(text1, text2) ==
  /\ probe = NoProbe
  /\ probe' = [fn |-> "calculateCombinedSimilarity", text1 |-> text1,
               text2 |-> text2,
               result |-> calculateCombinedSimilarity(text1, text2)]
  /\ UNCHANGED <<detector, events, nextId, call, response>>

\* A text against itself and against every shorter text
NextText ==
  /\ probe = NoProbe
  /\ \E text1 \in TextsUpTo(MaxTextLen) :
       \E text2 \in TextsUpTo(MaxTextLen - 1) \cup {text1} : Combine(text1, text2)
  /\ UNCHANGED <<client, calls, register>>

SpecText == Init /\ [][NextText]_vars

Combined == probe.fn = "calculateCombinedSimilarity"

----------------------------------------------------------------------------
(* The counts of the result's analysis                                      *)

\* The stored events the query of the last call selects
Selected ==
  {i \in 1..Len(events) :
     /\ events[i].status \in {"draft", "published"}
     /\ events[i].category = CallEvent.category
     /\ WithinDays(events[i].dateTime.start, CallEvent.dateTime.start, 7)
     /\ IsSome(CallOptions.excludeEventId) =>
          events[i]._id # Get(CallOptions.excludeEventId)}

\* The retrieved events that belong in the duplicates bucket with a
\* probability in [lo, hi)
DuplicatesBetween(lo, hi) ==
  {i \in 1..Len(call.existingEvents) :
     /\ RGe(ProbabilityOf(call.existingEvents[i]), GivenThreshold)
     /\ RGe(ProbabilityOf(call.existingEvents[i]), lo)
     /\ RLt(ProbabilityOf(call.existingEvents[i]), hi)}

\* C15: totalChecked is the number of events retrieved (the selected events,
\* at most `limit` of them), whatever the buckets and their truncation keep;
\* highConfidenceDuplicates counts the duplicates of tier exactly HIGH
\* (probability in [0.8, 0.9)), mediumConfidenceDuplicates those of tier
\* MEDIUM (probability in [0.6, 0.8)).
C15_Counts ==
  Returned =>
    /\ CallResult.analysis.totalChecked = Len(call.existingEvents)
    /\ CallResult.analysis.totalChecked =
         (IF Cardinality(Selected) <= GivenLimit THEN Cardinality(Selected)
          ELSE GivenLimit)
    /\ CallResult.analysis.highConfidenceDuplicates =
         Cardinality(DuplicatesBetween(Frac(8, 10), Frac(9, 10)))
    /\ CallResult.analysis.mediumConfidenceDuplicates =
         Cardinality(DuplicatesBetween(Frac(6, 10), Frac(8, 10)))

\* A call whose duplicates bucket holds a VERY_HIGH, a HIGH and a MEDIUM
\* verdict, and that retrieved more events than its two lists show
C15_Witness ==
  /\ Returned
  /\ \E i \in 1..Len(call.duplicates) : call.duplicates[i].confidence = "VERY_HIGH"
  /\ CallResult.analysis.highConfidenceDuplicates >= 1
  /\ CallResult.analysis.mediumConfidenceDuplicates >= 1
  /\ CallResult.analysis.totalChecked >
       Len(CallResult.duplicates) + Len(CallResult.suggestions)

----------------------------------------------------------------------------
(* Damaged records, incomplete candidates, a failing store                  *)

\* The last call retrieved a record whose organizer does not exist
RetrievedBadRecord ==
  /\ call.made
  /\ \E i \in 1..Len(call.existingEvents) : call.existingEvents[i].organizer = OrgNull

\* C16: a retrieved record that cannot be scored is skipped: the call still
\* returns, the record is in neither bucket and the other retrieved events
\* are scored.
C16_BadRecordSkipped ==
  RetrievedBadRecord =>
    /\ ~call.threw
    /\ IsSome(call.result)
    /\ \A i \in 1..Len(CallVerdicts) : CallVerdicts[i].event.organizer # OrgNull

\* The candidate of the last call lacks a required field
CandidateIncomplete ==
  /\ call.made
  /\ \/ CallEvent.title = Undefined
     \/ CallEvent.venue.name = Undefined

\* C17: a candidate without a required field is refused before any query of
\* the store.
C17_InvalidCandidate ==
  CandidateIncomplete => (call.threw /\ call.queries = 0)

\* C18: while the store fails, a call throws to its caller after its one
\* query, without a result; and every call ends with the complete result
\* (and did not throw) or with an error and no result at all.
C18_StoreFailure ==
  /\ [][\A newEvent \in ScenarioCandidates, options \in ScenarioOptions :
          Detect(newEvent, options, TRUE) =>
            /\ call'.threw
            /\ call'.queries = 1
            /\ call'.result = None
            /\ call'.duplicates = <<>> /\ call'.suggestions = <<>>]_vars
  /\ [](call.made =>
          /\ call.queries = 1
          /\ call.threw => call.result = None
          /\ ~call.threw =>
               /\ IsSome(call.result)
               /\ DOMAIN CallResult =
                    {"isDuplicate", "duplicates", "suggestions", "analysis"}
               /\ CallResult.analysis.totalChecked = Len(call.existingEvents))

\* A call that threw although the store holds events its query selects:
\* the query failed
C18_Witness ==
  /\ call.made
  /\ call.threw
  /\ call.existingEvents = <<>>
  /\ Selected # {}

----------------------------------------------------------------------------
(* The page's create flow: createEventWithDuplicateCheck, checkForDuplicates *)
(* and showDuplicateResults of the frontend.  A fetch runs from request to   *)
(* response in one step, together with the route handler that answers it.   *)

\* A catch block that answers "duplicate" when the check fails
FailClosedResult == [isDuplicate |-> TRUE, duplicates |-> <<>>, suggestions |-> <<>>]

\* return { isDuplicate: false, duplicates: [], suggestions: [] }
FailOpenResult == [isDuplicate |-> FALSE, duplicates |-> <<>>, suggestions |-> <<>>]

\* The body of a response that is not OK: { success: false, message }
ErrorBody == [success |-> FALSE]

\* The body of a 200 of POST /api/events/check-duplicates
CheckResponseBody(frame, answer) ==
  [success |-> TRUE,
   isDuplicate |-> Get(frame.result).isDuplicate,
   duplicates |-> Get(frame.result).duplicates,
   suggestions |-> Get(frame.result).suggestions,
   recommendations |-> Get(answer.recommendations)]

\* JSON.stringify({ ...eventData, excludeEventId })
CheckRequestBody(eventData) == [eventData EXCEPT !.excludeEventId = None]

\* The events a user of the page sets out to create
FlowBodies == {PostBody(CandidateX, FALSE), PostBody(CandidateHigh, FALSE)}

ServerVars == <<detector, events, nextId, call, response, probe, calls, register>>

\* createEventWithDuplicateCheck(eventData) up to the fetch of
\* checkForDuplicates: no check is in progress, so the flag is raised
StartFlow(body) ==
  [NoClient EXCEPT !.pc = "checking", !.eventData = Some(body),
                   !.duplicateCheckInProgress = TRUE,
                   !.lastDuplicateCheck = client.lastDuplicateCheck,
                   !.lastCheckOf = client.lastCheckOf]

CreateEvent(body) ==
  /\ client.pc = "idle"
  /\ Len(events) < MaxEvents
  /\ client' = StartFlow(body)
  /\ UNCHANGED ServerVars

\* A second call checkForDuplicates(eventData) while the first is in
\* progress resolves to lastDuplicateCheck (value); of is the eventData of
\* the request lastDuplicateCheck answered
ConcurrentCheck(body) ==
  /\ client.duplicateCheckInProgress
  /\ client.concurrent = None
  /\ client' = [client EXCEPT
                  !.concurrent = Some([eventData |-> body,
                                       value |-> client.lastDuplicateCheck,
                                       of |-> client.lastCheckOf])]
  /\ UNCHANGED ServerVars

\* The end of checkForDuplicates after a failure: the catch block's value,
\* and the finally block
CheckFailed(how, last, of) ==
  [client EXCEPT !.pc = "show", !.duplicateResults = Some(FailOpenResult),
                 !.lastDuplicateCheck = last, !.lastCheckOf = of,
                 !.checkEnded = how, !.duplicateCheckInProgress = FALSE]

\* fetch rejects: no response
CheckNetworkError ==
  /\ client.pc = "checking"
  /\ client' = CheckFailed("network", client.lastDuplicateCheck, client.lastCheckOf)
  /\ UNCHANGED ServerVars

\* The route answers: 200 with the analysis, or a response that is not OK
CheckResponse(user, storeFails) ==
  /\ client.pc = "checking"
  /\ CheckDuplicates(user, CheckRequestBody(Get(client.eventData)), storeFails)
  /\ UNCHANGED <<calls, register>>
  /\ client' =
       IF response'.status = 200
       THEN [client EXCEPT
               !.pc = "show",
               !.duplicateResults = Some(CheckResponseBody(call', response')),
               !.lastDuplicateCheck = Some(CheckResponseBody(call', response')),
               !.lastCheckOf = client.eventData,
               !.checkEnded = "ok",
               !.duplicateCheckInProgress = FALSE]
       ELSE CheckFailed("notok", Some(ErrorBody), client.eventData)

\* showDuplicateResults(duplicateResults): nothing similar, or the modal
ShowDuplicateResults ==
  /\ client.pc = "show"
  /\ client' =
       IF ~Get(client.duplicateResults).isDuplicate
            /\ Len(Get(client.duplicateResults).suggestions) = 0
       THEN [client EXCEPT
               !.pc = "decided", !.stage = "advisory",
               !.userDecision = Some([canProceed |-> TRUE, shouldWarn |-> FALSE,
                                      skipDuplicateCheck |-> FALSE])]
       ELSE [client EXCEPT !.pc = "modal", !.stage = "advisory", !.warned = TRUE]
  /\ UNCHANGED ServerVars

\* A click in the modal on "proceed anyway" or on "cancel"
ModalClick(proceed) ==
  /\ client.pc = "modal"
  /\ client' =
       [client EXCEPT
          !.pc = "decided",
          !.userDecision = Some([canProceed |-> proceed, shouldWarn |-> TRUE,
                                 skipDuplicateCheck |-> proceed])]
  /\ UNCHANGED ServerVars

\* if (!userDecision.canProceed) return { success: false, ... }; after the
\* server's modal, anything but "proceed anyway" ends the flow as well
CancelFlow ==
  /\ client.pc = "decided"
  /\ ~Get(client.userDecision).canProceed
  /\ client' = [client EXCEPT !.pc = "done", !.outcome = "cancelled"]
  /\ UNCHANGED ServerVars

\* eventData with the flag the user's decision adds
DecidedBody ==
  IF Get(client.userDecision).skipDuplicateCheck
  THEN [Get(client.eventData) EXCEPT !.skipDuplicateCheck = TRUE]
  ELSE Get(client.eventData)

\* fetch('/api/events', POST) and what the flow makes of the response
SubmitEvent(user, now, storeFails) ==
  /\ client.pc = "decided"
  /\ client.stage = "advisory"
  /\ Get(client.userDecision).canProceed
  /\ PostEvent(user, DecidedBody, now, storeFails)
  /\ UNCHANGED <<calls, register>>
  /\ client' =
       IF response'.status = 201
       THEN [client EXCEPT !.pc = "done", !.eventData = Some(DecidedBody),
                           !.submitted = TRUE, !.posts = @ + 1, !.outcome = "created"]
       ELSE IF response'.code = "DUPLICATE_DETECTED"
       THEN [client EXCEPT !.pc = "modal", !.eventData = Some(DecidedBody),
                           !.submitted = TRUE, !.posts = @ + 1, !.stage = "server",
                           !.warned = TRUE]
       ELSE [client EXCEPT !.pc = "done", !.eventData = Some(DecidedBody),
                           !.submitted = TRUE, !.posts = @ + 1, !.outcome = "failed"]

\* The fetch of the POST rejects: the flow's catch block
SubmitNetworkError ==
  /\ client.pc = "decided"
  /\ client.stage = "advisory"
  /\ Get(client.userDecision).canProceed
  /\ client' = [client EXCEPT !.pc = "done", !.eventData = Some(DecidedBody),
                              !.submitted = TRUE, !.posts = @ + 1, !.outcome = "failed"]
  /\ UNCHANGED ServerVars

\* A retry that sends the event as it was sent before
RetryAsBefore ==
  /\ client.pc = "decided"
  /\ client.stage = "server"
  /\ Get(client.userDecision).canProceed
  /\ client.depth < 3
  /\ client' = [StartFlow([Get(client.eventData) EXCEPT !.skipDuplicateCheck = FALSE])
                  EXCEPT !.posts = client.posts, !.depth = client.depth + 1]
  /\ UNCHANGED ServerVars

\* "Proceed anyway" in the server's modal: the flow starts again with the flag
Retry ==
  /\ client.pc = "decided"
  /\ client.stage = "server"
  /\ Get(client.userDecision).canProceed
  /\ client' = [StartFlow([Get(client.eventData) EXCEPT !.skipDuplicateCheck = TRUE])
                  EXCEPT !.posts = client.posts, !.depth = client.depth + 1]
  /\ UNCHANGED ServerVars

\* The flow has returned; the page stays
FlowReturns ==
  /\ client.pc = "done"
  /\ client' = [NoClient EXCEPT !.lastDuplicateCheck = client.lastDuplicateCheck,
                                !.lastCheckOf = client.lastCheckOf]
  /\ UNCHANGED ServerVars

NextFrontend ==
  \/ \E body \in FlowBodies : CreateEvent(body)
  \/ \E body \in FlowBodies : ConcurrentCheck(body)
  \/ CheckNetworkError
  \/ \E user \in Organizers, storeFails \in BOOLEAN : CheckResponse(user, storeFails)
  \/ ShowDuplicateResults
  \/ \E proceed \in BOOLEAN : ModalClick(proceed)
  \/ CancelFlow
  \/ \E user \in Organizers, now \in Nows, storeFails \in BOOLEAN :
       SubmitEvent(user, now, storeFails)
  \/ SubmitNetworkError
  \/ Retry
  \/ FlowReturns

SpecFrontend == Init /\ [][NextFrontend]_vars

\* The advisory check of the flow under way failed
AdvisoryCheckFailed == client.checkEnded \in {"network", "notok"}

\* C19: when the advisory check fails (no response, or a response that is
\* not OK), the frontend's checkForDuplicates resolves to {isDuplicate:
\* false, duplicates: [], suggestions: []}, showDuplicateResults answers
\* canProceed = true without a modal, and the flow submits the event: it is
\* never cancelled before the POST, and it ends only after the POST.
C19_AdvisoryFailOpen ==
  AdvisoryCheckFailed =>
    /\ client.duplicateResults =
         Some([isDuplicate |-> FALSE, duplicates |-> <<>>, suggestions |-> <<>>])
    /\ ~client.duplicateCheckInProgress
    /\ ~client.submitted =>
         /\ client.pc \in {"show", "decided"}
         /\ ~client.warned
         /\ client.outcome = "none"
         /\ client.pc = "decided" =>
              /\ client.stage = "advisory"
              /\ Get(client.userDecision).canProceed
              /\ ~Get(client.userDecision).shouldWarn
              /\ ~Get(client.userDecision).skipDuplicateCheck
    /\ client.pc = "done" => client.submitted

\* A flow whose check was answered 500 and whose event was created all the same
C19_Witness ==
  /\ client.checkEnded = "notok"
  /\ client.submitted
  /\ ~client.warned
  /\ client.outcome = "created"
  /\ response.status = 201

----------------------------------------------------------------------------
(* Calls of checkForDuplicates under way at the same time, and writers     *)
(* of the store between their steps.  A call gives up control once, at its *)
(* await of Event.find.                                                     *)

\* The calls made: a candidate and its options
InterleaveCalls ==
  {<<CandidateAI, Options(Some(Frac(7, 10)), None, None)>>,
   <<CandidateX, Options(None, None, None)>>}

\* The events other requests create and delete meanwhile
WrittenIds == {1}

\* A call that keeps the threshold of its options in the detector
BeginAndTune(slot, newEvent, options) ==
  /\ calls[slot].pc = "idle"
  /\ calls' = [calls EXCEPT ![slot] =
                 [IdleCall EXCEPT !.pc = "querying", !.newEvent = Some(newEvent),
                                  !.options = Some(options)]]
  /\ detector' = [detector EXCEPT !.similarityThreshold = OptThreshold(options)]
  /\ UNCHANGED <<events, nextId, call, response, probe, client, register>>

\* checkForDuplicates up to the await: the options are read, the query
\* document is built, Event.find is issued
Begin(slot, newEvent, options) ==
  /\ calls[slot].pc = "idle"
  /\ calls' = [calls EXCEPT ![slot] =
                 [IdleCall EXCEPT !.pc = "querying", !.newEvent = Some(newEvent),
                                  !.options = Some(options)]]
  /\ UNCHANGED <<detector, events, nextId, call, response, probe, client, register>>

\* The store answers the query with the events it holds now, or fails
Query(slot, storeFails) ==
  /\ calls[slot].pc = "querying"
  /\ calls' = [calls EXCEPT ![slot] =
                 [calls[slot] EXCEPT !.pc = "scoring",
                           !.storeAtQuery = IF storeFails THEN None ELSE Some(events),
                           !.storeFailed = storeFails,
                           !.existingEvents =
                              IF storeFails THEN <<>>
                              ELSE FindEvents(events, Get(calls[slot].newEvent), Get(calls[slot].options))]]
  /\ UNCHANGED <<detector, events, nextId, call, response, probe, client, register>>

\* The continuation of the await: the catch block after a failed query, or
\* the loop, the sorts and the return
Finish(slot) ==
  /\ calls[slot].pc = "scoring"
  /\ calls' = [calls EXCEPT ![slot] =
                 [calls[slot] EXCEPT !.pc = "done",
                           !.frame =
                              Some(IF calls[slot].storeFailed
                                   THEN Thrown(Get(calls[slot].newEvent), Get(calls[slot].options), <<>>)
                                   ELSE ScoreRetrieved(Get(calls[slot].newEvent), Get(calls[slot].options),
                                                       calls[slot].existingEvents))]]
  /\ UNCHANGED <<detector, events, nextId, call, response, probe, client, register>>

\* The caller is done with the outcome
Forget(slot) ==
  /\ calls[slot].pc = "done"
  /\ calls' = [calls EXCEPT ![slot] = IdleCall]
  /\ UNCHANGED <<detector, events, nextId, call, response, probe, client, register>>

\* Another request creates an event (event.save of POST /api/events)
InsertEvent(id) ==
  /\ \A i \in 1..Len(events) : events[i]._id # id
  /\ events' = Append(events, ScenarioEvent(id))
  /\ UNCHANGED <<detector, nextId, call, response, probe, client, calls, register>>

\* Another request deletes an event (Event.findByIdAndDelete)
DeleteEvent(id) ==
  /\ \E i \in 1..Len(events) : events[i]._id = id
  /\ events' = SelectSeq(events, LAMBDA e : e._id # id)
  /\ UNCHANGED <<detector, nextId, call, response, probe, client, calls, register>>

NextInterleave ==
  \/ \E slot \in Slots, c \in InterleaveCalls : Begin(slot, c[1], c[2])
  \/ \E slot \in Slots, storeFails \in BOOLEAN : Query(slot, storeFails)
  \/ \E slot \in Slots : Finish(slot)
  \/ \E slot \in Slots : Forget(slot)
  \/ \E id \in WrittenIds : InsertEvent(id)
  \/ \E id \in WrittenIds : DeleteEvent(id)

SpecInterleave == Init /\ [][NextInterleave]_vars

\* C20: checkForDuplicates never writes.  Every step of a call leaves the
\* event store and the detector's configuration as they are; whatever calls
\* and writers ran in between, the configuration is the constructor's
\* (0.8, 7 days, 5 km); and the outcome of a call is the one computed from
\* its candidate, its options and the store as its query found it, whatever
\* was written since and whatever other calls were under way.
C20_NeverWrites ==
  /\ [][calls' # calls => (events' = events /\ detector' = detector)]_vars
  /\ [](detector = [similarityThreshold |-> Frac(8, 10), dateProximityDays |-> 7,
                    venueProximityKm |-> 5])
  /\ [](\A slot \in Slots :
          calls[slot].pc = "done" =>
            Get(calls[slot].frame) =
              checkForDuplicates(IF calls[slot].storeFailed THEN <<>>
                                 ELSE Get(calls[slot].storeAtQuery),
                                 calls[slot].storeFailed,
                                 Get(calls[slot].newEvent), Get(calls[slot].options)))

\* Two calls of one candidate and the same options are over.  The first
\* queried the store while it held the similar event and reports it; the
\* event was deleted since, and the second, which queried afterwards,
\* reports nothing.
C20_Witness ==
  /\ calls[1].pc = "done" /\ calls[2].pc = "done"
  /\ calls[1].newEvent = calls[2].newEvent
  /\ calls[1].options = calls[2].options
  /\ ~calls[1].storeFailed /\ ~calls[2].storeFailed
  /\ calls[1].storeAtQuery # Some(events)
  /\ calls[2].storeAtQuery = Some(events)
  /\ Get(calls[1].frame).result # None
  /\ Get(Get(calls[1].frame).result).isDuplicate
  /\ Get(calls[2].frame).result # None
  /\ ~Get(Get(calls[2].frame).result).isDuplicate

----------------------------------------------------------------------------
(* generateExplanation applied to an analysis                              *)

\* Factor values at the triggers, above them and below them
ExplainTitles == {Frac(5, 10), Frac(8, 10), Frac(81, 100)}
ExplainDescriptions == {Frac(7, 10), Frac(71, 100), ROne}
ExplainDates == {RZero, Frac(8, 10), Frac(6, 7)}
ExplainVenues == {Frac(5, 10), Frac(8, 10), Frac(9, 10)}

Explain(analysis) ==
  /\ probe = NoProbe
  /\ probe' = [fn |-> "generateExplanation", factors |-> analysis.factors,
               explanation |-> generateExplanation(analysis)]
  /\ UNCHANGED <<detector, events, nextId, call, response>>

NextExplain ==
  /\ probe = NoProbe
  /\ \E titleSimilarity \in ExplainTitles, descriptionSimilarity \in ExplainDescriptions,
        dateProximity \in ExplainDates, venueProximity \in ExplainVenues,
        categoryMatch \in {0, 1}, organizerMatch \in {0, 1} :
       Explain([probability |-> RZero,
                factors |-> [titleSimilarity |-> titleSimilarity,
                             descriptionSimilarity |-> descriptionSimilarity,
                             dateProximity |-> dateProximity,
                             venueProximity |-> venueProximity,
                             categoryMatch |-> categoryMatch,
                             organizerMatch |-> organizerMatch]])
  /\ UNCHANGED <<client, calls, register>>

SpecExplain == Init /\ [][NextExplain]_vars

Explained == probe.fn = "generateExplanation"

\* The six clauses in the order of the documentation
ClauseOrder == <<"title", "description", "date", "venue", "category", "organizer">>

\* The trigger of a clause over the factors explained
Triggered(c) ==
  CASE c = "title" -> RGt(probe.factors.titleSimilarity, Frac(8, 10))
    [] c = "description" -> RGt(probe.factors.descriptionSimilarity, Frac(7, 10))
    [] c = "date" -> RGt(probe.factors.dateProximity, Frac(8, 10))
    [] c = "venue" -> RGt(probe.factors.venueProximity, Frac(8, 10))
    [] c = "category" -> probe.factors.categoryMatch = 1
    [] c = "organizer" -> probe.factors.organizerMatch = 1

\* The clause a piece of the explanation is
ClauseOf(piece) ==
  CASE piece[1] = "Event titles are N% similar" -> "title"
    [] piece[1] = "Event descriptions are N% similar" -> "description"
    [] piece[1] = "Events are scheduled very close in time" -> "date"
    [] piece[1] = "Events are at the same or very similar venue" -> "venue"
    [] piece[1] = "Events are in the same category" -> "category"
    [] piece[1] = "Events have the same organizer" -> "organizer"
    [] OTHER -> "general"

\* C21: the explanation is the clauses whose trigger holds, in the order
\* title, description, date, venue, category, organizer; it is "General
\* similarity detected" exactly when no trigger holds; a title similarity
\* of exactly 0.8 and a description similarity of exactly 0.7 do not fire.
C21_Explanation ==
  Explained =>
    /\ (probe.explanation = <<<<"General similarity detected">>>>)
         <=> (\A i \in 1..Len(ClauseOrder) : ~Triggered(ClauseOrder[i]))
    /\ (\E i \in 1..Len(ClauseOrder) : Triggered(ClauseOrder[i])) =>
         [i \in 1..Len(probe.explanation) |-> ClauseOf(probe.explanation[i])]
           = SelectSeq(ClauseOrder, Triggered)
    /\ probe.factors.titleSimilarity = Frac(8, 10) =>
         \A i \in 1..Len(probe.explanation) : ClauseOf(probe.explanation[i]) # "title"
    /\ probe.factors.descriptionSimilarity = Frac(7, 10) =>
         \A i \in 1..Len(probe.explanation) :
           ClauseOf(probe.explanation[i]) # "description"

\* Title and description at their triggers' values, the four other triggers
\* hold: four clauses, from date to organizer
C21_Witness ==
  /\ Explained
  /\ probe.factors.titleSimilarity = Frac(8, 10)
  /\ probe.factors.descriptionSimilarity = Frac(7, 10)
  /\ Len(probe.explanation) = 4
  /\ ClauseOf(probe.explanation[1]) = "date"
  /\ ClauseOf(probe.explanation[4]) = "organizer"

----------------------------------------------------------------------------
(* calculateDateProximity applied to instants                              *)

\* Instants in ms, and the distances between them: none, a millisecond, half
\* a day, a day and a millisecond more, three days and a half, the window of
\* seven days and a millisecond more, eight days
DateBases == {0, 1000, MsPerDay}
DateOffsets ==
  {0, 1, MsPerDay \div 2, MsPerDay, MsPerDay + 1, 3 * MsPerDay + MsPerDay \div 2,
   7 * MsPerDay, 7 * MsPerDay + 1, 8 * MsPerDay}

\* Three instants, the first against the two others and back
DateProbe(date1, date2, date3) ==
  /\ probe = NoProbe
  /\ probe' = [fn |-> "calculateDateProximity",
               date1 |-> date1, date2 |-> date2, date3 |-> date3,
               result12 |-> calculateDateProximity(date1, date2),
               result21 |-> calculateDateProximity(date2, date1),
               result13 |-> calculateDateProximity(date1, date3)]
  /\ UNCHANGED <<detector, events, nextId, call, response>>

NextDate ==
  /\ probe = NoProbe
  /\ \E t \in DateBases, d2 \in DateOffsets, d3 \in DateOffsets :
       DateProbe(t, t + d2, t + d3)
  /\ UNCHANGED <<client, calls, register>>

SpecDate == Init /\ [][NextDate]_vars

DateProbed == probe.fn = "calculateDateProximity"

\* The days between two instants, a started day counted whole
DaysBetween(t1, t2) ==
  CHOOSE n \in 0..9 : (n - 1) * 86400000 < Abs(t1 - t2) /\ Abs(t1 - t2) <= n * 86400000

Approximately(x, y) == RLe(RSub(x, y), Frac(5, 100)) /\ RLe(RSub(y, x), Frac(5, 100))

\* The three instants of the example: t, t + 8 days, t + 3.5 days
DateExample ==
  /\ DateProbed
  /\ probe.date2 = probe.date1 + 8 * 86400000
  /\ probe.date3 = probe.date1 + 3 * 86400000 + 43200000

\* C23 as stated: dateProximity(t, t) = 1, dateProximity(t, t + 8 days) = 0,
\* and dateProximity(t, t + 3.5 days) is approximately 0.5.
C23_DateExampleHalf ==
  /\ (DateProbed /\ probe.date2 = probe.date1) => probe.result12 = ROne
  /\ DateExample =>
       (probe.result12 = RZero /\ Approximately(probe.result13, Frac(1, 2)))

\* C23: dateProximity(t, t) = 1 and dateProximity(t, t + 8 days) = 0, and
\* dateProximity(t, t + 3.5 days) = 3/7 (about 0.43): the started fourth day
\* counts whole.
C23_DateExample ==
  /\ (DateProbed /\ probe.date2 = probe.date1) => probe.result12 = ROne
  /\ DateExample => (probe.result12 = RZero /\ probe.result13 = Frac(3, 7))

C23_Witness == DateExample /\ probe.result13 = Frac(3, 7)

----------------------------------------------------------------------------
(* calculateVenueProximity applied to a pair of venues                     *)

OtherHall == <<"c", "c", "d">>

\* Venues with and without address and coordinates; an address without
\* street and city; coordinates 2 km and 6 km from the first; coordinates on
\* the equator (latitude 0)
ProbeNames == {HallName, OtherHall}
ProbeAddresses ==
  {None, Some([street |-> Street, city |-> City]),
   Some([street |-> Undefined, city |-> Undefined])}
ProbeCoordinates ==
  {None, Some([latitude |-> 1, longitude |-> 1]), Some([latitude |-> 3, longitude |-> 1]),
   Some([latitude |-> 7, longitude |-> 1]), Some([latitude |-> 0, longitude |-> 1])}
ProbeVenues ==
  {[name |-> name, address |-> address, coordinates |-> coordinates] :
     name \in ProbeNames, address \in ProbeAddresses, coordinates \in ProbeCoordinates}

VenueProbe(venue1, venue2) ==
  /\ probe = NoProbe
  /\ probe' = [fn |-> "calculateVenueProximity", venue1 |-> venue1, venue2 |-> venue2,
               result |-> calculateVenueProximity(venue1, venue2)]
  /\ UNCHANGED <<detector, events, nextId, call, response>>

NextVenue ==
  /\ probe = NoProbe
  /\ \E venue1 \in ProbeVenues, venue2 \in ProbeVenues : VenueProbe(venue1, venue2)
  /\ UNCHANGED <<client, calls, register>>

SpecVenue == Init /\ [][NextVenue]_vars

VenueProbed == probe.fn = "calculateVenueProximity"

\* The three terms of the documentation over the venues probed
NameTerm == calculateCombinedSimilarity(probe.venue1.name, probe.venue2.name)
KmApart ==
  Abs(Get(probe.venue1.coordinates).latitude - Get(probe.venue2.coordinates).latitude)
GeoTerm ==
  IF IsSome(probe.venue1.coordinates) /\ IsSome(probe.venue2.coordinates)
  THEN IF KmApart <= 5 THEN Frac(5 - KmApart, 5) ELSE RZero
  ELSE RZero
AddressText(venue) ==
  TemplateText(Get(venue.address).street) \o <<" ">> \o TemplateText(Get(venue.address).city)
AddressTerm ==
  IF IsSome(probe.venue1.address) /\ IsSome(probe.venue2.address)
  THEN calculateCombinedSimilarity(AddressText(probe.venue1), AddressText(probe.venue2))
  ELSE RZero
LacksBoth(venue) == ~IsSome(venue.coordinates) /\ ~IsSome(venue.address)

\* Every coordinate of both venues is a non-zero number
NonZeroCoordinates ==
  \A venue \in {probe.venue1, probe.venue2} :
    IsSome(venue.coordinates) =>
      (Get(venue.coordinates).latitude # 0 /\ Get(venue.coordinates).longitude # 0)

\* C24: venueProximity = 0.5 * nameSimilarity + 0.3 * geo + 0.2 * addressSim,
\* geo being 0 unless both venues carry coordinates (then 1 - distance/5
\* within 5 km, else 0) and addressSim 0 unless both carry an address; when
\* either venue lacks both coordinates and address the result is at most 0.5.
C24_VenueProximity ==
  VenueProbed =>
    /\ probe.result =
         RAdd(RAdd(RMul(NameTerm, Frac(5, 10)), RMul(GeoTerm, Frac(3, 10))),
              RMul(AddressTerm, Frac(2, 10)))
    /\ (LacksBoth(probe.venue1) \/ LacksBoth(probe.venue2)) =>
         RLe(probe.result, Frac(5, 10))

\* The same for venues none of whose coordinates is 0
VenueProximityNonZero == (VenueProbed /\ NonZeroCoordinates) => C24_VenueProximity

\* Without the geo term wherever a coordinate is 0; at most 0.5 when a venue
\* lacks both coordinates and address
VenueProximityZero ==
  VenueProbed =>
    /\ ~NonZeroCoordinates =>
         probe.result = RAdd(RMul(NameTerm, Frac(5, 10)), RMul(AddressTerm, Frac(2, 10)))
    /\ (LacksBoth(probe.venue1) \/ LacksBoth(probe.venue2)) =>
         RLe(probe.result, Frac(5, 10))

----------------------------------------------------------------------------
(* organizerMatch of the events scored by a call                           *)

\* C25: for every stored event scored inside checkForDuplicates,
\* factors.organizerMatch is 1 exactly when the stored event's organizer is
\* the candidate's organizer, and 0 otherwise.
C25_OrganizerMatch ==
  Returned =>
    \A i \in 1..Len(call.existingEvents) :
      calculateDuplicateProbability(CallEvent, call.existingEvents[i]).factors.organizerMatch
        = (IF call.existingEvents[i].organizer.id = CallEvent.organizer.id THEN 1 ELSE 0)

\* organizerMatch is 0 for every event a call scores, its organizer being the
\* candidate's or not
OrganizerMatchZero ==
  Returned =>
    \A i \in 1..Len(call.existingEvents) :
      calculateDuplicateProbability(CallEvent, call.existingEvents[i]).factors.organizerMatch
        = 0

----------------------------------------------------------------------------
(* Truncation of the duplicates and the blocking verdicts                  *)

\* A pool of events that all match the query of the candidate CandidateX:
\* events equal to the candidate ("same": 0.95, the organizer never matching)
\* and events a day later without address and coordinates ("near": HIGH)
MaxPool == 6
PoolKinds == {"same", "near"}
PoolEvent(id, kind) ==
  StoredEvent(id,
              IF kind = "same" THEN CandidateX
              ELSE CandidateOf(TitleA, DescriptionA, "technology", VenueName,
                               StartA + Day(1), OrgId(1)),
              "published")

\* Thresholds below, at and above 0.9
PoolOptions ==
  {Options(None, None, None), Options(Some(Frac(4, 10)), None, None),
   Options(Some(Frac(9, 10)), None, None), Options(Some(Frac(96, 100)), None, None)}

InitPool ==
  /\ detector = NewDetector
  /\ \E n \in 0..MaxPool :
       \E kinds \in [1..n -> PoolKinds] :
         events = <<>> \o [i \in 1..n |-> PoolEvent(i, kinds[i])]
  /\ nextId = MaxPool + 1
  /\ call = NoCall
  /\ response = NoResponse
  /\ probe = NoProbe
  /\ client = NoClient
  /\ calls = NoCalls
  /\ register = NoRegister

NextPool ==
  \/ /\ ~call.made
     /\ \E options \in PoolOptions : Detect(CandidateX, options, FALSE)
     /\ UNCHANGED <<client, calls, register>>
  \/ Return /\ UNCHANGED <<client, calls, register>>

SpecPool == InitPool /\ [][NextPool]_vars

\* A retrieved event of the call scores at least 0.9
RetrievedVeryHigh ==
  \E i \in 1..Len(call.existingEvents) :
    RGe(ProbabilityOf(call.existingEvents[i]), Frac(9, 10))

\* C26: truncation never hides a blocking duplicate.  For a threshold of at
\* most 0.9 the returned duplicates (the top 5 after sorting) hold a
\* VERY_HIGH verdict if and only if a retrieved event has probability >= 0.9,
\* so the creation gate and recommendations.shouldBlock fire exactly then.
C26_TruncationKeepsBlocking ==
  (Returned /\ RLe(GivenThreshold, Frac(9, 10))) =>
    /\ (\E k \in 1..Len(CallResult.duplicates) :
          CallResult.duplicates[k].confidence = "VERY_HIGH") <=> RetrievedVeryHigh
    /\ GateBlocks(CallResult) <=> RetrievedVeryHigh
    /\ Recommendations(CallResult).shouldBlock <=> RetrievedVeryHigh

\* Six duplicates, of which five are returned; the one VERY_HIGH verdict is
\* of the event retrieved last and is returned first
C26_Witness ==
  /\ Returned
  /\ RLe(GivenThreshold, Frac(9, 10))
  /\ Len(call.duplicates) = 6
  /\ Len(CallResult.duplicates) = 5
  /\ ProbabilityOf(call.existingEvents[6]) = Frac(95, 100)
  /\ \A i \in 1..5 : RLt(ProbabilityOf(call.existingEvents[i]), Frac(9, 10))
  /\ CallResult.duplicates[1].confidence = "VERY_HIGH"
  /\ CallResult.duplicates[1].event._id = 6

\* With a threshold above 0.9 an event scoring between 0.9 and the threshold
\* is no duplicate: nothing blocks although a retrieved event scores >= 0.9
HighThresholdHides ==
  /\ Returned
  /\ RGt(GivenThreshold, Frac(9, 10))
  /\ RetrievedVeryHigh
  /\ ~GateBlocks(CallResult)

----------------------------------------------------------------------------
(* The counts of the analysis and the list returned                        *)

\* C29: highConfidenceDuplicates + mediumConfidenceDuplicates never exceeds
\* the number of verdicts in the returned duplicates list, and with a
\* threshold >= 0.8 the medium-confidence count is 0.
C29_CountsConsistent ==
  Returned =>
    /\ CallResult.analysis.highConfidenceDuplicates
         + CallResult.analysis.mediumConfidenceDuplicates <= Len(CallResult.duplicates)
    /\ RGe(GivenThreshold, Frac(8, 10)) =>
         CallResult.analysis.mediumConfidenceDuplicates = 0

\* The counts are bounded by the bucket before it is sliced, and the medium
\* count is 0 from a threshold of 0.8 on
CountsWithinBucket ==
  Returned =>
    /\ CallResult.analysis.highConfidenceDuplicates
         + CallResult.analysis.mediumConfidenceDuplicates <= Len(call.duplicates)
    /\ RGe(GivenThreshold, Frac(8, 10)) =>
         CallResult.analysis.mediumConfidenceDuplicates = 0

----------------------------------------------------------------------------
(* What the frontend's checkForDuplicates resolves to, and how often the   *)
(* create flow submits                                                      *)

\* The overlapping call has resolved
Overlapped == client.concurrent # None

\* C27: every value the frontend's checkForDuplicates(eventData) resolves to
\* is the server's response to a request carrying that same eventData or the
\* fail-open empty result; an overlapping call never resolves to null, to
\* the result computed for a different event, or to a cached error response.
C27_ResolvedValues ==
  /\ client.pc = "show" =>
       \/ client.duplicateResults = Some(FailOpenResult)
       \/ /\ client.duplicateResults = client.lastDuplicateCheck
          /\ client.lastCheckOf = client.eventData
          /\ Get(client.duplicateResults).success
  /\ Overlapped =>
       \/ Get(client.concurrent).value = Some(FailOpenResult)
       \/ /\ Get(client.concurrent).value # None
          /\ Get(Get(client.concurrent).value).success
          /\ Get(client.concurrent).of = Some(Get(client.concurrent).eventData)

\* The overlapping call resolved to null: no check had ended before
ResolvedNull == Overlapped /\ Get(client.concurrent).value = None

\* The overlapping call resolved to the body of a response that was not OK
ResolvedCachedError == Overlapped /\ Get(client.concurrent).value = Some(ErrorBody)

\* The overlapping call resolved to the analysis of another event
ResolvedOtherEvent ==
  /\ Overlapped
  /\ Get(client.concurrent).value # None
  /\ Get(Get(client.concurrent).value).success
  /\ Get(client.concurrent).of # Some(Get(client.concurrent).eventData)

\* The call that found no check in progress resolves as C27 says
FirstCallResolves ==
  client.pc = "show" =>
    \/ client.duplicateResults = Some(FailOpenResult)
    \/ /\ client.duplicateResults = client.lastDuplicateCheck
       /\ client.lastCheckOf = client.eventData
       /\ Get(client.duplicateResults).success

\* How far a flow has come: the steps of one pass in their order, a retry
\* above every step of the pass before it
PcRank(c) ==
  CASE c.pc = "idle" -> 0
    [] c.pc = "checking" -> 1
    [] c.pc = "show" -> 2
    [] c.pc = "modal" /\ c.stage = "advisory" -> 3
    [] c.pc = "decided" /\ c.stage = "advisory" -> 4
    [] c.pc = "modal" -> 5
    [] c.pc = "decided" -> 6
    [] OTHER -> 7
FlowRank(c) == 10 * c.depth + PcRank(c)

\* C28: createEventWithDuplicateCheck ends after at most two POST
\* /api/events submissions per user action.  A retry after DUPLICATE_DETECTED
\* carries skipDuplicateCheck = true, a request with the flag is never
\* answered DUPLICATE_DETECTED, and the retry recursion has depth at most 1;
\* every step of a flow takes it further, so that it ends.
C28_AtMostTwoPosts ==
  /\ [](client.posts <= 2 /\ client.depth <= 1)
  /\ [](client.depth = 1 => Get(client.eventData).skipDuplicateCheck)
  /\ []((response.route = PostRoute /\ Request.skipDuplicateCheck) =>
          response.code # "DUPLICATE_DETECTED")
  /\ [][(client.pc # "done" /\ client'.concurrent = client.concurrent) =>
          (FlowRank(client') > FlowRank(client) /\ FlowRank(client') <= 17)]_vars

\* A flow answered DUPLICATE_DETECTED whose retry created the event: two POSTs
C28_Witness ==
  /\ client.pc = "done"
  /\ client.depth = 1
  /\ client.posts = 2
  /\ client.outcome = "created"
  /\ response.status = 201


\* ---------------------------------------------------------------------
\* POST /api/events/:id/register: concurrent requests for one event
\* ---------------------------------------------------------------------

\* The users that send register requests, and the largest capacity of the event
MaxRegistrants == 3
MaxAttendees == 2
Registrants == 1..MaxRegistrants

\* A request that has not arrived
IdleRequest == [pc |-> "idle", event |-> None, status |-> 0, message |-> "none"]

\* The event document of the store: its status and its registration block
EventDocument ==
  [status |-> register.status,
   registration |-> [maxAttendees |-> register.maxAttendees,
                     currentAttendees |-> register.currentAttendees,
                     waitingList |-> register.waitingList,
                     approvalRequired |-> register.approvalRequired]]

\* eventSchema.virtual('registrationStatus'), before the deadline
registrationStatus(event) ==
  IF event.registration.currentAttendees >= event.registration.maxAttendees
    THEN IF event.registration.waitingList THEN "waitlist" ELSE "full"
    ELSE "open"

\* eventSchema.methods.canRegister, before the deadline
canRegister(event) ==
  event.status = "published" /\ registrationStatus(event) = "open"

\* res.status(status).json({ message }) of the request of user
Answer(user, status, message) ==
  [register.requests[user] EXCEPT !.pc = "done", !.status = status, !.message = message]

\* Registration.findOne({ event, user }) finds a document
Registered(user) == \E r \in register.registrations : r.user = user

\* A published event with no registration yet: it holds between 1 and
\* MaxAttendees people, with or without a waiting list and approval
InitRegister ==
  /\ detector = NewDetector
  /\ events = <<>>
  /\ nextId = 1
  /\ call = NoCall
  /\ response = NoResponse
  /\ probe = NoProbe
  /\ client = NoClient
  /\ calls = NoCalls
  /\ \E max \in 1..MaxAttendees, waitingList \in BOOLEAN, approvalRequired \in BOOLEAN,
        status \in {"published", "draft"} :
       register = [maxAttendees |-> max, currentAttendees |-> 0,
                   waitingList |-> waitingList, approvalRequired |-> approvalRequired,
                   status |-> status, registrations |-> {},
                   requests |-> [user \in Registrants |-> IdleRequest]]

\* The request of user arrives and passes protect and validation
Receive(user) ==
  /\ register.requests[user].pc = "idle"
  /\ register' = [register EXCEPT !.requests[user].pc = "findEvent"]
  /\ UNCHANGED <<detector, events, nextId, call, response, probe, client, calls>>

\* const event = await Event.findById(...); if (!event.canRegister()) 400
FindEvent(user) ==
  /\ register.requests[user].pc = "findEvent"
  /\ register' =
       [register EXCEPT !.requests[user] =
          IF ~canRegister(EventDocument)
            THEN [Answer(user, 400, "Registration is not available for this event")
                    EXCEPT !.event = Some(EventDocument)]
            ELSE [register.requests[user] EXCEPT !.pc = "findRegistration",
                                                  !.event = Some(EventDocument)]]
  /\ UNCHANGED <<detector, events, nextId, call, response, probe, client, calls>>

\* await Registration.findOne(...), the 'already registered' answer, and the
\* capacity check on the event that findById returned
FindRegistration(user) ==
  /\ register.requests[user].pc = "findRegistration"
  /\ register' =
       [register EXCEPT !.requests[user] =
          LET event == Get(register.requests[user].event) IN
          IF Registered(user)
            THEN Answer(user, 400, "You are already registered for this event")
          ELSE IF event.registration.currentAttendees >= event.registration.maxAttendees
            THEN IF event.registration.waitingList
                   THEN [register.requests[user] EXCEPT !.pc = "createWaitlisted"]
                   ELSE Answer(user, 400, "Event is full")
          ELSE [register.requests[user] EXCEPT !.pc = "create"]]
  /\ UNCHANGED <<detector, events, nextId, call, response, probe, client, calls>>

\* await Registration.create(...): 'waitlisted' and the 200 answer on the
\* waiting list branch, otherwise 'pending' or 'confirmed'
CreateRegistration(user) ==
  /\ register.requests[user].pc \in {"create", "createWaitlisted"}
  /\ register' =
       LET event == Get(register.requests[user].event) IN
       IF register.requests[user].pc = "createWaitlisted"
         THEN [register EXCEPT
                 !.registrations = @ \cup {[user |-> user, status |-> "waitlisted"]},
                 !.requests[user] = Answer(user, 200, "Added to waiting list")]
         ELSE [register EXCEPT
                 !.registrations = @ \cup
                    {[user |-> user,
                      status |-> IF event.registration.approvalRequired
                                   THEN "pending" ELSE "confirmed"]},
                 !.requests[user].pc = "increment"]
  /\ UNCHANGED <<detector, events, nextId, call, response, probe, client, calls>>

\* await Event.findByIdAndUpdate(event._id, { $inc: { currentAttendees: 1 } })
\* and the 201 answer of a free event
IncrementAttendees(user) ==
  /\ register.requests[user].pc = "increment"
  /\ register' =
       [register EXCEPT
          !.currentAttendees = @ + 1,
          !.requests[user] = Answer(user, 201, "Registration successful - FREE event")]
  /\ UNCHANGED <<detector, events, nextId, call, response, probe, client, calls>>

\* The user has the answer and may send the next request
Answered(user) ==
  /\ register.requests[user].pc = "done"
  /\ register' = [register EXCEPT !.requests[user] = IdleRequest]
  /\ UNCHANGED <<detector, events, nextId, call, response, probe, client, calls>>

NextRegister ==
  \/ \E user \in Registrants : Receive(user)
  \/ \E user \in Registrants : FindEvent(user)
  \/ \E user \in Registrants : FindRegistration(user)
  \/ \E user \in Registrants : CreateRegistration(user)
  \/ \E user \in Registrants : IncrementAttendees(user)
  \/ \E user \in Registrants : Answered(user)

SpecRegister == InitRegister /\ [][NextRegister]_vars

\* The requests that have read the event and are not yet answered
UnderWay ==
  {user \in Registrants :
     register.requests[user].pc \in {"findRegistration", "create", "createWaitlisted", "increment"}}

\* The request of user is answered and the event it read was full
AnsweredWhenFull(user) ==
  /\ register.requests[user].pc = "done"
  /\ IsSome(register.requests[user].event)
  /\ Get(register.requests[user].event).status = "published"
  /\ Get(register.requests[user].event).registration.currentAttendees >=
       Get(register.requests[user].event).registration.maxAttendees

\* C30: under any interleaving of concurrent register requests for one event
\* currentAttendees never exceeds maxAttendees, the confirmed and pending
\* registrations never outnumber the spots, and a request that finds the
\* event full is waitlisted or refused with 'Event is full'.
C30_NeverOverbooked ==
  /\ register.currentAttendees <= register.maxAttendees
  /\ Cardinality({r \in register.registrations : r.status \in {"confirmed", "pending"}})
       <= register.maxAttendees
  /\ \A user \in DOMAIN register.requests :
       AnsweredWhenFull(user) =>
         register.requests[user].message \in {"Added to waiting list", "Event is full"}

\* The counter has passed the capacity
Overbooked == register.currentAttendees > register.maxAttendees

\* A request that found the event full was told that registration is not
\* available
FullNotAvailable ==
  \E user \in DOMAIN register.requests :
    /\ AnsweredWhenFull(user)
    /\ register.requests[user].message = "Registration is not available for this event"

\* A request is put on the waiting list or refused with 'Event is full'
WaitlistedOrFull ==
  \/ \E r \in register.registrations : r.status = "waitlisted"
  \/ \E user \in DOMAIN register.requests :
       register.requests[user].message \in {"Added to waiting list", "Event is full"}

\* What the route does keep: the counter counts the confirmed and pending
\* registrations whose increment is done, every request that registers read
\* the event while a spot was free, and the waiting list and 'Event is full'
\* answers are never given
RegisterCounts ==
  /\ register.currentAttendees =
       Cardinality({r \in register.registrations : r.status \in {"confirmed", "pending"}})
         - Cardinality({user \in DOMAIN register.requests :
                          register.requests[user].pc = "increment"})
  /\ \A user \in DOMAIN register.requests :
       register.requests[user].pc \in {"create", "increment"} =>
         Get(register.requests[user].event).registration.currentAttendees <
           register.maxAttendees
  /\ ~WaitlistedOrFull

====
